---- MODULE Spec2Model ----
(***************************************************************************)
(* A model of the ResumeSharp parsing-and-scoring core                     *)
(* (server/app/services/{utils,parse,analyze}.py and the /api/analyze      *)
(* handler of server/app/main.py).                                         *)
(*                                                                         *)
(* Python strings are modelled as sequences of characters; a character is  *)
(* a one-element TLA+ string, with the names "ndash", "mdash", "bullet",   *)
(* "tab" and "middot" standing for U+2013, U+2014, U+2022, U+0009, U+00B7, *)
(* and "nl", "cr" and "rsquo" for U+000A, U+000D and U+2019.               *)
(***************************************************************************)
EXTENDS Integers, Sequences, FiniteSets, TLC

VARIABLES
    cTerms, cOnce, cTwice, cPc,     \* canonicalize_terms applied once and twice
    rStart, rEndA, rEndB, rToday,   \* two roles that differ in their end date only,
    rWA, rWB, rPc,                  \* and their recency weights
    lines, idx, current, roles, xPc, \* _split_experience_roles: its locals
    aResume, aJd, aCfg, aToday,     \* a request to analyze: its inputs, the settings and the day,
    aResult, aRaw, aPc,             \* the response, analyze's unclamped score, the return path
    sLines, sIdx, sCurrent, sSections, sPc,\* split_sections: its input and locals
    pKind, pContent, pResult, pPc,  \* parse_text: kind, content, what it returns, where it returned
    dText, dToday, dResult, dPc,    \* one call of _parse_month_year
    hResume, hFlags, hPc,           \* one call of hygiene_flags
    gCanonFor, gVariants, gHeap, gBuilds, tPc, tK, tTable, tTerms, tOut,\* threads in build_canonical_maps
    wResume, wJd, wCfg, wToday, wDay1, wFirst, wSecond, wTable, wPc,\* two calls of analyze with the same inputs
    fJd, fResume, fOut, fPc,        \* the scores as functions
    uLimit, uDbUsed, uPc, uLocal    \* callers of check_api_limit and the row of user_profiles

canonVars == <<cTerms, cOnce, cTwice, cPc>>
recencyVars == <<rStart, rEndA, rEndB, rToday, rWA, rWB, rPc>>
rolesVars == <<lines, idx, current, roles, xPc>>
analyzeVars == <<aResume, aJd, aCfg, aToday, aResult, aRaw, aPc>>
sectionVars == <<sLines, sIdx, sCurrent, sSections, sPc>>
parseVars == <<pKind, pContent, pResult, pPc>>
dateVars == <<dText, dToday, dResult, dPc>>
hygieneVars == <<hResume, hFlags, hPc>>
lazyVars == <<gCanonFor, gVariants, gHeap, gBuilds, tPc, tK, tTable, tTerms, tOut>>
twiceVars == <<wResume, wJd, wCfg, wToday, wDay1, wFirst, wSecond, wTable, wPc>>
scoreVars == <<fJd, fResume, fOut, fPc>>
usageVars == <<uLimit, uDbUsed, uPc, uLocal>>
vars == <<canonVars, recencyVars, rolesVars, analyzeVars, sectionVars, parseVars, dateVars, hygieneVars, lazyVars, twiceVars, scoreVars, usageVars>>

-----------------------------------------------------------------------------
(* Characters                                                              *)

\* ord(c) for the characters of the model's alphabet
CodeOf ==
    ("a" :> 97) @@ ("b" :> 98) @@ ("c" :> 99) @@ ("d" :> 100) @@ ("e" :> 101) @@ ("f" :> 102) @@
    ("g" :> 103) @@ ("h" :> 104) @@ ("i" :> 105) @@ ("j" :> 106) @@ ("k" :> 107) @@ ("l" :> 108) @@
    ("m" :> 109) @@ ("n" :> 110) @@ ("o" :> 111) @@ ("p" :> 112) @@ ("q" :> 113) @@ ("r" :> 114) @@
    ("s" :> 115) @@ ("t" :> 116) @@ ("u" :> 117) @@ ("v" :> 118) @@ ("w" :> 119) @@ ("x" :> 120) @@
    ("y" :> 121) @@ ("z" :> 122) @@ ("A" :> 65) @@ ("B" :> 66) @@ ("C" :> 67) @@ ("D" :> 68) @@
    ("E" :> 69) @@ ("F" :> 70) @@ ("G" :> 71) @@ ("H" :> 72) @@ ("I" :> 73) @@ ("J" :> 74) @@
    ("K" :> 75) @@ ("L" :> 76) @@ ("M" :> 77) @@ ("N" :> 78) @@ ("O" :> 79) @@ ("P" :> 80) @@
    ("Q" :> 81) @@ ("R" :> 82) @@ ("S" :> 83) @@ ("T" :> 84) @@ ("U" :> 85) @@ ("V" :> 86) @@
    ("W" :> 87) @@ ("X" :> 88) @@ ("Y" :> 89) @@ ("Z" :> 90) @@ ("0" :> 48) @@ ("1" :> 49) @@
    ("2" :> 50) @@ ("3" :> 51) @@ ("4" :> 52) @@ ("5" :> 53) @@ ("6" :> 54) @@ ("7" :> 55) @@
    ("8" :> 56) @@ ("9" :> 57) @@ (" " :> 32) @@ ("-" :> 45) @@ ("." :> 46) @@ ("," :> 44) @@
    ("+" :> 43) @@ ("#" :> 35) @@ ("/" :> 47) @@ ("_" :> 95) @@ ("!" :> 33) @@ (":" :> 58) @@
    ("'" :> 39) @@ ("|" :> 124) @@ ("(" :> 40) @@ (")" :> 41) @@ ("&" :> 38) @@ (";" :> 59) @@
    ("*" :> 42) @@ ("tab" :> 9) @@ ("ndash" :> 8211) @@ ("mdash" :> 8212) @@ ("bullet" :> 8226) @@ ("middot" :> 183) @@
    ("nl" :> 10) @@ ("cr" :> 13) @@ ("@" :> 64) @@ ("rsquo" :> 8217)

\* str.lower() on one character
LowerOf ==
    ("A" :> "a") @@ ("B" :> "b") @@ ("C" :> "c") @@ ("D" :> "d") @@ ("E" :> "e") @@ ("F" :> "f") @@
    ("G" :> "g") @@ ("H" :> "h") @@ ("I" :> "i") @@ ("J" :> "j") @@ ("K" :> "k") @@ ("L" :> "l") @@
    ("M" :> "m") @@ ("N" :> "n") @@ ("O" :> "o") @@ ("P" :> "p") @@ ("Q" :> "q") @@ ("R" :> "r") @@
    ("S" :> "s") @@ ("T" :> "t") @@ ("U" :> "u") @@ ("V" :> "v") @@ ("W" :> "w") @@ ("X" :> "x") @@
    ("Y" :> "y") @@ ("Z" :> "z")

Chars == DOMAIN CodeOf
UpperCh == DOMAIN LowerOf
LowerCh == {LowerOf[c] : c \in UpperCh}
\* the inverse of LowerOf
UpperOf ==
    ("a" :> "A") @@ ("b" :> "B") @@ ("c" :> "C") @@ ("d" :> "D") @@ ("e" :> "E") @@ ("f" :> "F") @@
    ("g" :> "G") @@ ("h" :> "H") @@ ("i" :> "I") @@ ("j" :> "J") @@ ("k" :> "K") @@ ("l" :> "L") @@
    ("m" :> "M") @@ ("n" :> "N") @@ ("o" :> "O") @@ ("p" :> "P") @@ ("q" :> "Q") @@ ("r" :> "R") @@
    ("s" :> "S") @@ ("t" :> "T") @@ ("u" :> "U") @@ ("v" :> "V") @@ ("w" :> "W") @@ ("x" :> "X") @@
    ("y" :> "Y") @@ ("z" :> "Z")
DigitCh == {"0", "1", "2", "3", "4", "5", "6", "7", "8", "9"}
\* \w of Python's re on str: letters, digits and the underscore
WordCh == UpperCh \cup LowerCh \cup DigitCh \cup {"_"}
\* \s of Python's re, and the characters str.strip() removes
SpaceCh == {" ", "tab", "nl", "cr"}

-----------------------------------------------------------------------------
(* Strings                                                                 *)

Max(a, b) == IF a >= b THEN a ELSE b
Min(a, b) == IF a <= b THEN a ELSE b

\* s[i:j] of Python with 0 <= i, j: the characters i+1..j (1-based, inclusive)
Slice(s, i, j) == IF j <= i THEN <<>> ELSE SubSeq(s, i + 1, Min(j, Len(s)))

LowerChar(c) == IF c \in UpperCh THEN LowerOf[c] ELSE c
\* str.lower()
Lower(s) == [i \in 1..Len(s) |-> LowerChar(s[i])]

RECURSIVE LStrip(_)
LStrip(s) == IF s # <<>> /\ Head(s) \in SpaceCh THEN LStrip(Tail(s)) ELSE s
RECURSIVE RStrip(_)
RStrip(s) == IF s # <<>> /\ s[Len(s)] \in SpaceCh THEN RStrip(SubSeq(s, 1, Len(s) - 1)) ELSE s
\* str.strip()
Strip(s) == RStrip(LStrip(s))

\* re.sub(r"\s+", " ", s): every run of whitespace becomes one space
RunStarts(s) ==
    SelectSeq([k \in 1..Len(s) |-> k], LAMBDA k : ~(s[k] \in SpaceCh /\ k > 1 /\ s[k - 1] \in SpaceCh))
SpaceAt(s, places) == [j \in 1..Len(places) |-> IF s[places[j]] \in SpaceCh THEN " " ELSE s[places[j]]]
CollapseSpaces(s) == SpaceAt(s, RunStarts(s))

\* the longest prefix of s made of characters of cls, as a length
SpanLen(s, cls) ==
    CHOOSE n \in 0..Len(s) :
        /\ n = Len(s) \/ s[n + 1] \notin cls
        /\ \A k \in 1..n : s[k] \in cls

\* every character outside keep replaced by a space
ReplaceOutside(s, keep) == [i \in 1..Len(s) |-> IF s[i] \in keep THEN s[i] ELSE " "]

\* str.strip(chars)
RECURSIVE LStripSet(_, _)
LStripSet(s, cls) == IF s # <<>> /\ Head(s) \in cls THEN LStripSet(Tail(s), cls) ELSE s
RECURSIVE RStripSet(_, _)
RStripSet(s, cls) ==
    IF s # <<>> /\ s[Len(s)] \in cls THEN RStripSet(SubSeq(s, 1, Len(s) - 1), cls) ELSE s
StripSet(s, cls) == RStripSet(LStripSet(s, cls), cls)

\* the rest of s from position i on (1-based); empty when i is past the end
From(s, i) == SubSeq(s, i, Len(s))

\* s holds the literal lit at position i
HasAt(s, i, lit) == i >= 1 /\ i + Len(lit) - 1 <= Len(s) /\ SubSeq(s, i, i + Len(lit) - 1) = lit

\* sub in s, for strings (sub is not empty)
Contains(s, sub) == \E i \in 1..Len(s) : HasAt(s, i, sub)

\* s.replace(sub, rep), sub not empty
FirstAtOf(s, sub) == CHOOSE i \in 1..Len(s) : HasAt(s, i, sub) /\ \A j \in 1..(i - 1) : ~HasAt(s, j, sub)
RECURSIVE ReplaceAll(_, _, _)
ReplaceAll(s, sub, rep) ==
    IF ~Contains(s, sub) THEN s
    ELSE SubSeq(s, 1, FirstAtOf(s, sub) - 1) \o rep \o ReplaceAll(From(s, FirstAtOf(s, sub) + Len(sub)), sub, rep)

\* str.split(): the maximal runs of non-whitespace characters
RECURSIVE SplitWs(_)
SplitWs(s) ==
    LET t == LStrip(s)
        k == SpanLen(t, Chars \ SpaceCh)
    IN  IF t = <<>> THEN <<>> ELSE <<SubSeq(t, 1, k)>> \o SplitWs(From(t, k + 1))

\* sep.join(parts)
RECURSIVE Join(_, _)
Join(parts, sep) ==
    IF parts = <<>> THEN <<>>
    ELSE IF Len(parts) = 1 THEN parts[1]
    ELSE parts[1] \o sep \o Join(Tail(parts), sep)

\* x in xs, for a Python list
InList(x, xs) == \E i \in 1..Len(xs) : xs[i] = x

\* all the lists of length 0..n over the set S
RECURSIVE ListsUpTo(_, _)
ListsUpTo(S, n) ==
    IF n = 0 THEN {<<>>}
    ELSE LET shorter == ListsUpTo(S, n - 1)
         IN  shorter \cup {Append(l, x) : l \in {m \in shorter : Len(m) = n - 1}, x \in S}

-----------------------------------------------------------------------------
(* Skill canonicalization: utils.py, "Smart Skill Matching"                *)

\* The registry services/skills.py: canonical name -> alias spellings, in
\* the registry's order.
ALIASES == <<
    [canon |-> <<"J", "a", "v", "a", "S", "c", "r", "i", "p", "t">>, aliases |-> <<<<"j", "s">>>>],
    [canon |-> <<"K", "u", "b", "e", "r", "n", "e", "t", "e", "s">>, aliases |-> <<<<"k", "8", "s">>>>],
    [canon |-> <<"R", "e", "a", "c", "t">>, aliases |-> <<<<"r", "e", "a", "c", "t", ".", "j", "s">>, <<"r", "e", "a", "c", "t", "j", "s">>>>] >>

\* the characters _clean_token_for_skill keeps: [\w\+\.#/\- ]
SkillKeepCh == WordCh \cup {"+", ".", "#", "/", "-", " "}
\* [\-••]
LeadDashCh == {"-", "bullet"}

\* re.sub(r"^[\-••]+\s*", "", t)
DropLeadingDashes(t) ==
    LET k == SpanLen(t, LeadDashCh)
    IN  IF k = 0 THEN t ELSE LStrip(SubSeq(t, k + 1, Len(t)))

\* _clean_token_for_skill without its t.lower()
clean_token_keeps_case(t) ==
    LET t2 == DropLeadingDashes(Strip(t))
        t3 == ReplaceOutside(t2, SkillKeepCh)
    IN  Strip(CollapseSpaces(t3))

clean_token_for_skill(t) ==
    LET t1 == Strip(Lower(t))
        t2 == DropLeadingDashes(t1)
        t3 == ReplaceOutside(t2, SkillKeepCh)
    IN  Strip(CollapseSpaces(t3))

\* dict assignment d[k] = v
DictSet(d, k, v) == [x \in DOMAIN d \cup {k} |-> IF x = k THEN v ELSE d[x]]
EmptyDict == [x \in {} |-> <<>>]

\* the inner loop of build_canonical_maps over one canonical's alias list
RECURSIVE AddAliases(_, _, _)
AddAliases(d, canon, alist) ==
    IF alist = <<>> THEN d
    ELSE AddAliases(DictSet(d, clean_token_for_skill(Head(alist)), canon), canon, Tail(alist))

RECURSIVE BuildFrom(_, _)
BuildFrom(d, entries) ==
    IF entries = <<>> THEN d
    ELSE LET e  == Head(entries)
             d1 == DictSet(d, clean_token_for_skill(e.canon), e.canon)
         IN  BuildFrom(AddAliases(d1, e.canon, e.aliases), Tail(entries))

\* the table _CANON_FOR that build_canonical_maps returns
build_canonical_maps == BuildFrom(EmptyDict, ALIASES)

\* canon_for.get(n, n)
CanonGet(canon_for, n) == IF n \in DOMAIN canon_for THEN canon_for[n] ELSE n

RECURSIVE CanonLoop(_, _, _)
CanonLoop(canon_for, terms, out) ==
    IF terms = <<>> THEN out
    ELSE LET n == clean_token_for_skill(Head(terms))
             c == CanonGet(canon_for, n)
         IN  IF ~InList(c, out) /\ c # <<>>
             THEN CanonLoop(canon_for, Tail(terms), Append(out, c))
             ELSE CanonLoop(canon_for, Tail(terms), out)

canonicalize_terms(terms) == CanonLoop(build_canonical_maps, terms, <<>>)

-----------------------------------------------------------------------------
(* Recency helpers: utils.py, dates and role_recency_weight                *)

\* Python's None where a string is expected
None == <<"None">>
\* a datetime.date; NoDate stands for the None that _parse_month_year returns
NoDate == [year |-> 0, month |-> 0, day |-> 0]
Date(y, m, d) == [year |-> y, month |-> m, day |-> d]

MONTH_MAP ==
    (<<"j", "a", "n">> :> 1) @@
    (<<"j", "a", "n", "u", "a", "r", "y">> :> 1) @@
    (<<"f", "e", "b">> :> 2) @@
    (<<"f", "e", "b", "r", "u", "a", "r", "y">> :> 2) @@
    (<<"m", "a", "r">> :> 3) @@
    (<<"m", "a", "r", "c", "h">> :> 3) @@
    (<<"a", "p", "r">> :> 4) @@
    (<<"a", "p", "r", "i", "l">> :> 4) @@
    (<<"m", "a", "y">> :> 5) @@
    (<<"j", "u", "n">> :> 6) @@
    (<<"j", "u", "n", "e">> :> 6) @@
    (<<"j", "u", "l">> :> 7) @@
    (<<"j", "u", "l", "y">> :> 7) @@
    (<<"a", "u", "g">> :> 8) @@
    (<<"a", "u", "g", "u", "s", "t">> :> 8) @@
    (<<"s", "e", "p">> :> 9) @@
    (<<"s", "e", "p", "t">> :> 9) @@
    (<<"s", "e", "p", "t", "e", "m", "b", "e", "r">> :> 9) @@
    (<<"o", "c", "t">> :> 10) @@
    (<<"o", "c", "t", "o", "b", "e", "r">> :> 10) @@
    (<<"n", "o", "v">> :> 11) @@
    (<<"n", "o", "v", "e", "m", "b", "e", "r">> :> 11) @@
    (<<"d", "e", "c">> :> 12) @@
    (<<"d", "e", "c", "e", "m", "b", "e", "r">> :> 12)

LetterCh == UpperCh \cup LowerCh
AllIn(s, cls) == \A i \in 1..Len(s) : s[i] \in cls

\* int(s) for a string of decimal digits
RECURSIVE IntOf(_)
IntOf(s) == IF s = <<>> THEN 0 ELSE 10 * IntOf(SubSeq(s, 1, Len(s) - 1)) + (CodeOf[s[Len(s)]] - 48)

\* (?:19|20)\d{2} as a whole string
IsFullYear(s) ==
    /\ Len(s) = 4
    /\ SubSeq(s, 1, 2) \in {<<"1", "9">>, <<"2", "0">>}
    /\ AllIn(s, DigitCh)

NoMonthSep(s) == 0

\* the number of leading digits k in 1..2 for which s is \d{k}[/\-]rest, 0 if none
MonthSepLen(s) ==
    LET k == SpanLen(s, DigitCh)
    IN  IF k \in {1, 2} /\ Len(s) > k /\ s[k + 1] \in {"/", "-"} THEN k ELSE 0

\* two-digit years: 00-30 are 20xx, 31-99 are 19xx
ExpandShortYear(year_short) == IF year_short <= 30 THEN 2000 + year_short ELSE 1900 + year_short

\* '?(\d{2})'? as a whole string: the two digits, <<>> if no match
ShortYearDigits(t) ==
    LET a == IF t # <<>> /\ Head(t) = "'" THEN Tail(t) ELSE t
        b == IF a # <<>> /\ a[Len(a)] = "'" THEN SubSeq(a, 1, Len(a) - 1) ELSE a
        ok(x) == Len(x) = 2 /\ AllIn(x, DigitCh)
    IN  IF ok(b) THEN b
        ELSE IF ok(a) THEN a
        ELSE <<>>

\* ([A-Za-z]+)\s+(rest) as a whole string: <<word, rest>>, << >> if no match
WordThenRest(t) ==
    LET k == SpanLen(t, LetterCh)
        r == SubSeq(t, k + 1, Len(t))
        w == SpanLen(r, SpaceCh)
    IN  IF k >= 1 /\ w >= 1 THEN <<SubSeq(t, 1, k), SubSeq(r, w + 1, Len(r))>> ELSE <<>>

parse_month_year(s, today) ==
    IF s = None \/ s = <<>> THEN NoDate
    ELSE
    LET t  == Strip(s)
        k  == MonthSepLen(t)
        mo == IntOf(SubSeq(t, 1, k))
        yr == SubSeq(t, k + 2, Len(t))
        sy == ShortYearDigits(t)
        wr == WordThenRest(t)
        mon == IF wr # <<>> /\ Lower(wr[1]) \in DOMAIN MONTH_MAP THEN MONTH_MAP[Lower(wr[1])] ELSE 0
    IN  IF Lower(t) = <<"p", "r", "e", "s", "e", "n", "t">> THEN today
        ELSE IF IsFullYear(t) THEN Date(IntOf(t), 6, 1)
        ELSE IF k > 0 /\ IsFullYear(yr) /\ mo >= 1 /\ mo <= 12 THEN Date(IntOf(yr), mo, 1)
        ELSE IF k > 0 /\ Len(yr) = 2 /\ AllIn(yr, DigitCh) /\ mo >= 1 /\ mo <= 12
             THEN Date(ExpandShortYear(IntOf(yr)), mo, 1)
        ELSE IF sy # <<>> THEN Date(ExpandShortYear(IntOf(sy)), 6, 1)
        ELSE IF wr # <<>> /\ IsFullYear(wr[2]) /\ mon # 0 THEN Date(IntOf(wr[2]), mon, 1)
        ELSE IF wr # <<>> /\ Len(wr[2]) = 2 /\ AllIn(wr[2], DigitCh) /\ mon # 0
             THEN Date(ExpandShortYear(IntOf(wr[2])), mon, 1)
        ELSE NoDate

\* _months_ago with the year difference not multiplied by 12
months_ago_years_as_months(d, ref) == Max(0, (ref.year - d.year) + (ref.month - d.month))

months_ago(d, ref) == Max(0, (ref.year - d.year) * 12 + (ref.month - d.month))

\* Weights are fixed-point numbers in millionths (1000000 is 1.0).
\* round(10^6 * exp(-m / 18)) for m = 0..35; beyond the table the value is
\* below the floor of role_recency_weight and is given as ExpTable's last entry.
ExpTable == <<
    1000000, 945959, 894839, 846482, 800737, 757465, 716531, 677810, 641180, 606531, 573753,
    542747, 513417, 485672, 459426, 434598, 411112, 388896, 367879, 347999, 329193, 311403,
    294575, 278656, 263597, 249352, 235877, 223130, 211072, 199666, 188876, 178669, 169013,
    159880, 151240, 143067 >>

ExpDecay(months) == IF months + 1 <= Len(ExpTable) THEN ExpTable[months + 1] ELSE ExpTable[Len(ExpTable)]

NeutralWeight == 500000
WeightFloor == 150000
WeightCeil == 1000000
UnparsedMonths == 24

IsNonEmptyStr(x) == x # None /\ x # <<>>

role_recency_weight(role, today) ==
    IF IsNonEmptyStr(role.end)
    THEN LET d == parse_month_year(role.end, today)
             months == IF Lower(Strip(role.end)) = <<"p", "r", "e", "s", "e", "n", "t">> THEN 0
                       ELSE IF d # NoDate THEN months_ago(d, today) ELSE UnparsedMonths
         IN  Max(WeightFloor, Min(WeightCeil, ExpDecay(months)))
    ELSE IF IsNonEmptyStr(role.start)
    THEN LET d == parse_month_year(role.start, today)
             months == IF d # NoDate THEN months_ago(d, today) - 12 ELSE UnparsedMonths
         IN  Max(WeightFloor, Min(WeightCeil, ExpDecay(Max(months, 0))))
    ELSE NeutralWeight

-----------------------------------------------------------------------------
(* Regular expressions, as Python's re matches them: a backtracking search *)
(* that takes the leftmost match and, at one position, the first match in  *)
(* the order in which the alternatives and repetitions are tried.          *)
(* A pattern is a tree of records; Ends gives the positions at which a     *)
(* match of the pattern that starts at position i can end, in that order.  *)

Cls(S) == [t |-> "cls", set |-> S]
Lit(x) == [t |-> "lit", s |-> x]
Cat(parts) == [t |-> "cat", parts |-> parts]
Alt(parts) == [t |-> "alt", parts |-> parts]
\* max is -1 for a repetition without an upper limit
Rep(r, min, max) == [t |-> "rep", r |-> r, min |-> min, max |-> max, greedy |-> TRUE]
LazyRep(r, min, max) == [t |-> "rep", r |-> r, min |-> min, max |-> max, greedy |-> FALSE]
WordB == [t |-> "wb"]
Bol == [t |-> "bol"]
Eol == [t |-> "eol"]
Ahead(r) == [t |-> "la", r |-> r]
NotAhead(r) == [t |-> "nla", r |-> r]

SwapCase(c) ==
    IF c \in UpperCh THEN LowerOf[c]
    ELSE IF c \in LowerCh THEN UpperOf[c]
    ELSE c

\* c is in the class; with re.IGNORECASE also when its other case is
InCls(c, S, ic) == c \in S \/ (ic /\ SwapCase(c) \in S)

HasAtIc(s, i, lit, ic) ==
    /\ i >= 1
    /\ i + Len(lit) - 1 <= Len(s)
    /\ \A k \in 1..Len(lit) :
        s[i + k - 1] = lit[k] \/ (ic /\ LowerChar(s[i + k - 1]) = LowerChar(lit[k]))

\* \b at position i of s (between s[i-1] and s[i])
WordBoundary(s, i) ==
    (i > 1 /\ i - 1 <= Len(s) /\ s[i - 1] \in WordCh) # (i >= 1 /\ i <= Len(s) /\ s[i] \in WordCh)

\* a start position tried twice gives nothing new the second time
FirstPlaces(all) ==
    SelectSeq([k \in 1..Len(all) |-> k], LAMBDA k : \A j \in 1..(k - 1) : all[j] # all[k])
FirstAt(all, places) == [k \in 1..Len(places) |-> all[places[k]]]
FirstOnly(xs, out) == FirstAt(out \o xs, FirstPlaces(out \o xs))

RECURSIVE Ends(_, _, _, _)
RECURSIVE EndsEach(_, _, _, _)
RECURSIVE EndsCat(_, _, _, _)
RECURSIVE EndsAlt(_, _, _, _)
RECURSIVE EndsRep(_, _, _, _, _, _)
RECURSIVE EndsRepEach(_, _, _, _, _, _)

\* (the list of starts is halved, which keeps the nesting shallow)
EndsEach(r, s, starts, ic) ==
    IF starts = <<>> THEN <<>>
    ELSE IF Len(starts) = 1 THEN Ends(r, s, starts[1], ic)
    ELSE EndsEach(r, s, SubSeq(starts, 1, Len(starts) \div 2), ic)
         \o EndsEach(r, s, SubSeq(starts, Len(starts) \div 2 + 1, Len(starts)), ic)

EndsCat(parts, s, starts, ic) ==
    IF parts = <<>> \/ starts = <<>> THEN starts
    ELSE EndsCat(Tail(parts), s, FirstOnly(EndsEach(Head(parts), s, starts, ic), <<>>), ic)

EndsAlt(parts, s, i, ic) ==
    IF parts = <<>> THEN <<>>
    ELSE Ends(Head(parts), s, i, ic) \o EndsAlt(Tail(parts), s, i, ic)

EndsRepEach(r, s, starts, min, max, ic) ==
    IF starts = <<>> THEN <<>>
    ELSE IF Len(starts) = 1 THEN EndsRep(r, s, starts[1], min, max, ic)
    ELSE EndsRepEach(r, s, SubSeq(starts, 1, Len(starts) \div 2), min, max, ic)
         \o EndsRepEach(r, s, SubSeq(starts, Len(starts) \div 2 + 1, Len(starts)), min, max, ic)

\* one more round of the repetition, then the rest; a round that matches
\* the empty string ends the repetition
RepMore(r, s, i, min, max, ic) ==
    IF max = 0 THEN <<>>
    ELSE EndsRepEach(r, s, SelectSeq(Ends(r.r, s, i, ic), LAMBDA e : e > i),
                     Max(min - 1, 0), IF max > 0 THEN max - 1 ELSE max, ic)
RepHere(i, min) == IF min = 0 THEN <<i>> ELSE <<>>
EndsRep(r, s, i, min, max, ic) ==
    FirstOnly(IF r.greedy THEN RepMore(r, s, i, min, max, ic) \o RepHere(i, min)
              ELSE RepHere(i, min) \o RepMore(r, s, i, min, max, ic), <<>>)

Here(cond, i) == IF cond THEN <<i>> ELSE <<>>

\* The repetition of a character class: the run of characters of the class
\* that starts at position i has length n, and the repetition can end after
\* each number of them from min to max, the longest first when greedy.
RunLen(s, i, set, ic) ==
    CHOOSE n \in 0..(Len(s) + 1 - i) :
        /\ i + n > Len(s) \/ ~InCls(s[i + n], set, ic)
        /\ \A k \in 0..(n - 1) : InCls(s[i + k], set, ic)
RepCount(r, n) == IF r.max >= 0 THEN Min(n, r.max) ELSE n
EndsRepTo(r, i, n) ==
    IF n < r.min THEN <<>>
    ELSE [k \in 1..(n - r.min + 1) |-> IF r.greedy THEN i + n - (k - 1) ELSE i + r.min + (k - 1)]
EndsRepCls(r, s, i, n) == EndsRepTo(r, i, RepCount(r, n))

Ends(r, s, i, ic) ==
    CASE r.t = "lit" -> Here(HasAtIc(s, i, r.s, ic), i + Len(r.s))
      [] r.t = "cls" -> Here(i >= 1 /\ i <= Len(s) /\ InCls(s[i], r.set, ic), i + 1)
      [] r.t = "wb"  -> Here(WordBoundary(s, i), i)
      [] r.t = "bol" -> Here(i = 1, i)
      [] r.t = "eol" -> Here(i = Len(s) + 1, i)
      [] r.t = "cat" -> EndsCat(r.parts, s, <<i>>, ic)
      [] r.t = "alt" -> EndsAlt(r.parts, s, i, ic)
      [] r.t = "rep" -> IF r.r.t = "cls" THEN EndsRepCls(r, s, i, RunLen(s, i, r.r.set, ic))
                        ELSE EndsRep(r, s, i, r.min, r.max, ic)
      [] r.t = "la"  -> Here(Ends(r.r, s, i, ic) # <<>>, i)
      [] r.t = "nla" -> Here(Ends(r.r, s, i, ic) = <<>>, i)

\* A compiled pattern: what comes before group 1, group 1, what comes after
\* it, and re.IGNORECASE.  A pattern without a group is all group.
Rx(pre, grp, post, ic) == [pre |-> pre, grp |-> grp, post |-> post, ic |-> ic]
RxAll(r, ic) == Rx(Cat(<<>>), r, Cat(<<>>), ic)

\* A match: start and stop of the whole match, gs and ge of group 1
\* (positions; the text is from start up to stop - 1)
NoSpan == [start |-> 0, stop |-> 0, gs |-> 0, ge |-> 0]

\* the first end of the group, among ges, after which the rest matches
RestFrom(rx, s, e) == Ends(rx.post, s, e, rx.ic)
FirstGroupEnd(rx, s, ges) ==
    CHOOSE k \in 1..Len(ges) :
        RestFrom(rx, s, ges[k]) # <<>> /\ \A j \in 1..(k - 1) : RestFrom(rx, s, ges[j]) = <<>>
GroupTo(rx, s, i, a, e) == [start |-> i, stop |-> Head(RestFrom(rx, s, e)), gs |-> a, ge |-> e]
GroupEnd(rx, s, i, a, ges) ==
    IF \A k \in 1..Len(ges) : RestFrom(rx, s, ges[k]) = <<>> THEN NoSpan
    ELSE GroupTo(rx, s, i, a, ges[FirstGroupEnd(rx, s, ges)])

\* the first start of the group, among pres, from which the pattern matches
RECURSIVE GroupStart(_, _, _, _)
GroupFrom(rx, s, i, pres, m) == IF m # NoSpan THEN m ELSE GroupStart(rx, s, i, Tail(pres))
GroupStart(rx, s, i, pres) ==
    IF pres = <<>> THEN NoSpan
    ELSE GroupFrom(rx, s, i, pres, GroupEnd(rx, s, i, Head(pres), Ends(rx.grp, s, Head(pres), rx.ic)))

\* pattern.match at position i
MatchAt(rx, s, i) == GroupStart(rx, s, i, Ends(rx.pre, s, i, rx.ic))

\* the positions from i on at which the pattern matches, in ascending order
Positions(s, i) == IF i > Len(s) + 1 THEN <<>> ELSE [k \in 1..(Len(s) + 2 - i) |-> i + k - 1]
Hits(rx, s, i) == SelectSeq(Positions(s, i), LAMBDA j : MatchAt(rx, s, j) # NoSpan)

\* pattern.search from position i on: the leftmost match
SearchOn(rx, s, hits) == IF hits = <<>> THEN NoSpan ELSE MatchAt(rx, s, Head(hits))
Search(rx, s, i) == SearchOn(rx, s, Hits(rx, s, i))

\* pattern.finditer: the matches from left to right, not overlapping
RECURSIVE FindIterOn(_, _, _, _)
FindNext(rx, s, m, hits) ==
    IF m = NoSpan THEN <<>>
    ELSE <<m>> \o FindIterOn(rx, s, IF m.stop > m.start THEN m.stop ELSE m.stop + 1, hits)
FindIterOn(rx, s, i, hits) == FindNext(rx, s, SearchOn(rx, s, SelectSeq(hits, LAMBDA j : j >= i)), hits)
FindIter(rx, s, i) == FindIterOn(rx, s, i, Hits(rx, s, i))

Found(rx, s) == \E j \in 1..(Len(s) + 1) : MatchAt(rx, s, j) # NoSpan

\* the texts of group 1 of the matches
GroupTexts(s, ms) == [k \in 1..Len(ms) |-> SubSeq(s, ms[k].gs, ms[k].ge - 1)]

\* pattern.sub(rep, s) for a replacement without group references
RECURSIVE SubFrom(_, _, _, _)
SubFrom(s, ms, i, rep) ==
    IF ms = <<>> THEN From(s, i)
    ELSE SubSeq(s, i, Head(ms).start - 1) \o rep \o SubFrom(s, Tail(ms), Head(ms).stop, rep)
Sub(rx, s, rep) == SubFrom(s, FindIter(rx, s, 1), 1, rep)

\* pattern.split(s) for a pattern without groups
RECURSIVE SplitFrom(_, _, _)
SplitFrom(s, ms, i) ==
    IF ms = <<>> THEN <<From(s, i)>>
    ELSE <<SubSeq(s, i, Head(ms).start - 1)>> \o SplitFrom(s, Tail(ms), Head(ms).stop)
Split(rx, s) == SplitFrom(s, FindIter(rx, s, 1), 1)

-----------------------------------------------------------------------------
(* Bullets, date ranges and role headers: utils.py                         *)

\* [••\-–—\*•]
BulletCh == {"bullet", "-", "ndash", "mdash", "*"}

\* BULLET_PREFIX = ^\s*([••\-–—\*•]|\d+\.)\s+ : the length of the match at
\* the start of the line, 0 if there is none
BulletPrefixLen(line) ==
    LET a == SpanLen(line, SpaceCh)
        r == From(line, a + 1)
        d == SpanLen(r, DigitCh)
        m == IF r # <<>> /\ Head(r) \in BulletCh THEN 1
             ELSE IF d >= 1 /\ Len(r) > d /\ r[d + 1] = "." THEN d + 1
             ELSE 0
        w == SpanLen(From(r, m + 1), SpaceCh)
    IN  IF m > 0 /\ w >= 1 THEN a + m + w ELSE 0

is_bullet(line) == BulletPrefixLen(line) > 0

strip_bullet(line) == Strip(From(line, BulletPrefixLen(line) + 1))

\* collect_bullets: out and buf after the lines of block, then the last flush
BulletFlush(st) ==
    IF st.buf # <<>> THEN [out |-> Append(st.out, Strip(Join(st.buf, <<" ">>))), buf |-> <<>>] ELSE st

RECURSIVE BulletLoop(_, _)
BulletLoop(block, st) ==
    IF block = <<>> THEN st
    ELSE LET ln == Head(block)
             nx == IF is_bullet(ln)
                   THEN [out |-> BulletFlush(st).out, buf |-> <<strip_bullet(ln)>>]
                   ELSE IF Strip(ln) = <<>> THEN BulletFlush(st)
                   ELSE IF st.buf # <<>> THEN [st EXCEPT !.buf = Append(@, Strip(ln))]
                   ELSE [st EXCEPT !.buf = <<Strip(ln)>>]
         IN  BulletLoop(Tail(block), nx)

LongerThanOne(b) == Len(b) > 1

\* every line of the block a bullet of its own
LineBullets(block) ==
    SelectSeq([k \in 1..Len(block) |-> IF is_bullet(block[k]) THEN strip_bullet(block[k]) ELSE Strip(block[k])],
              LongerThanOne)

collect_bullets(block) ==
    SelectSeq(BulletFlush(BulletLoop(block, [out |-> <<>>, buf |-> <<>>])).out, LongerThanOne)

\* MONTH, in the order of the alternation
MonthNames == <<<<"J", "a", "n">>, <<"F", "e", "b">>, <<"M", "a", "r">>, <<"A", "p", "r">>, <<"M", "a", "y">>, <<"J", "u", "n">>, <<"J", "u", "l">>, <<"A", "u", "g">>, <<"S", "e", "p">>, <<"S", "e", "p", "t">>, <<"O", "c", "t">>, <<"N", "o", "v">>, <<"D", "e", "c">>, <<"J", "a", "n", "u", "a", "r", "y">>, <<"F", "e", "b", "r", "u", "a", "r", "y">>, <<"M", "a", "r", "c", "h">>, <<"A", "p", "r", "i", "l">>, <<"M", "a", "y">>, <<"J", "u", "n", "e">>, <<"J", "u", "l", "y">>, <<"A", "u", "g", "u", "s", "t">>, <<"S", "e", "p", "t", "e", "m", "b", "e", "r">>, <<"O", "c", "t", "o", "b", "e", "r">>, <<"N", "o", "v", "e", "m", "b", "e", "r">>, <<"D", "e", "c", "e", "m", "b", "e", "r">>>>

\* [\-–—] and the [ \t] around it
DashCh == {"-", "ndash", "mdash"}
BlankCh == {" ", "tab"}

\* Regular-expression pieces: each gives the position after its match at
\* position i of s (1-based), 0 when it does not match there.
YearAt(s, i) == IF i >= 1 /\ i + 3 <= Len(s) /\ IsFullYear(SubSeq(s, i, i + 3)) THEN i + 4 ELSE 0

TwoDigitsAt(s, i) ==
    IF i >= 1 /\ i + 1 <= Len(s) /\ s[i] \in DigitCh /\ s[i + 1] \in DigitCh THEN i + 2 ELSE 0

\* MONTH\s+YEAR
MonthYearAt(s, i) ==
    LET ends == {i + Len(MonthNames[k]) : k \in {k \in 1..Len(MonthNames) :
                    /\ HasAt(s, i, MonthNames[k])
                    /\ i + Len(MonthNames[k]) <= Len(s)
                    /\ s[i + Len(MonthNames[k])] \in SpaceCh}}
    IN  IF i < 1 \/ i > Len(s) \/ s[i] \notin UpperCh \/ ends = {} THEN 0
        ELSE LET a == CHOOSE e \in ends : TRUE
             IN  YearAt(s, a + SpanLen(From(s, a), SpaceCh))

\* DASH = [ \t]*[\-–—][ \t]*
DashAt(s, i) ==
    LET a == i + SpanLen(From(s, i), BlankCh)
    IN  IF i >= 1 /\ a <= Len(s) /\ s[a] \in DashCh
        THEN a + 1 + SpanLen(From(s, a + 1), BlankCh)
        ELSE 0

\* Present|present
PresentAt(s, i) ==
    IF HasAt(s, i, <<"P", "r", "e", "s", "e", "n", "t">>) \/ HasAt(s, i, <<"p", "r", "e", "s", "e", "n", "t">>)
    THEN i + 7 ELSE 0

\* \d{1,2}[\/\-] then YEAR (long) or \d{2} (short)
NumSepAt(s, i, long) ==
    LET d == Min(2, SpanLen(From(s, i), DigitCh))
        k == IF d >= 1 /\ i + d <= Len(s) /\ s[i + d] \in {"/", "-"} THEN d ELSE 0
    IN  IF i < 1 \/ k = 0 THEN 0
        ELSE IF long THEN YearAt(s, i + k + 1) ELSE TwoDigitsAt(s, i + k + 1)

FirstNonZero(a, b) == IF a # 0 THEN a ELSE b

\* '?\d{2}
QuotedTwoDigitsAt(s, i) ==
    IF i >= 1 /\ i <= Len(s) /\ s[i] = "'" THEN TwoDigitsAt(s, i + 1) ELSE TwoDigitsAt(s, i)

\* A match of one alternative: first part up to a, DASH up to b, second part
\* up to c, with the two groups.  The groups of the fifth alternative are
\* the two digits without the quote.
NoMatch == [start |-> 0, stop |-> 0, alt |-> 0, g1 |-> <<>>, g2 |-> <<>>]
RxMatch(s, alt, i, a, b, c) ==
    IF a = 0 \/ b = 0 \/ c = 0 THEN NoMatch
    ELSE [start |-> i, stop |-> c, alt |-> alt,
          g1 |-> IF alt = 5 THEN SubSeq(s, a - 2, a - 1) ELSE SubSeq(s, i, a - 1),
          g2 |-> IF alt = 5 THEN SubSeq(s, c - 2, c - 1) ELSE SubSeq(s, b, c - 1)]
\* the part before DASH and the part after it, for each of the five
\* alternatives of DATE_RANGE_RX
FirstPartAt(s, alt, i) ==
    CASE alt = 1 -> MonthYearAt(s, i)
      [] alt = 2 -> YearAt(s, i)
      [] alt = 3 -> NumSepAt(s, i, TRUE)
      [] alt = 4 -> NumSepAt(s, i, FALSE)
      [] alt = 5 -> QuotedTwoDigitsAt(s, i)
SecondPartAt(s, alt, b) ==
    CASE b = 0 -> 0
      [] b # 0 /\ alt = 1 -> FirstNonZero(PresentAt(s, b), MonthYearAt(s, b))
      [] b # 0 /\ alt = 2 -> FirstNonZero(PresentAt(s, b), YearAt(s, b))
      [] b # 0 /\ alt = 3 -> FirstNonZero(NumSepAt(s, b, TRUE), PresentAt(s, b))
      [] b # 0 /\ alt = 4 -> FirstNonZero(NumSepAt(s, b, FALSE), PresentAt(s, b))
      [] b # 0 /\ alt = 5 -> QuotedTwoDigitsAt(s, b)

RxEnd(s, alt, i, a, b) == RxMatch(s, alt, i, a, b, SecondPartAt(s, alt, b))
RxDash(s, alt, i, a) == RxEnd(s, alt, i, a, IF a = 0 THEN 0 ELSE DashAt(s, a))
DateAlt(s, alt, i) == RxDash(s, alt, i, FirstPartAt(s, alt, i))

DateAlternatives == 5

\* the first match of a sequence of attempts
FirstMatch(ms) ==
    IF \A k \in 1..Len(ms) : ms[k].start = 0 THEN NoMatch
    ELSE ms[CHOOSE k \in 1..Len(ms) : ms[k].start # 0 /\ \A j \in 1..(k - 1) : ms[j].start = 0]

\* DATE_RANGE_RX matched at position i: the first alternative that matches
DateRangeAt(s, i) == FirstMatch([alt \in 1..DateAlternatives |-> DateAlt(s, alt, i)])

\* every alternative starts with a capital (MONTH), a digit or a quote
DateStartCh == UpperCh \cup DigitCh \cup {"'"}

\* DATE_RANGE_RX.search(s): the leftmost match
DateRangeSearch(s) ==
    FirstMatch([i \in 1..Len(s) |-> IF s[i] \in DateStartCh THEN DateRangeAt(s, i) ELSE NoMatch])

PresentWord == <<"P", "r", "e", "s", "e", "n", "t">>

\* lines 456-481 of find_date_range: <<start, end>> from the match
DateGroup(m, g) == IF m.alt = 5 THEN <<"'">> \o g ELSE g
PresentNormal(end) == IF Lower(end) = Lower(PresentWord) THEN PresentWord ELSE end
DateGroups(m) ==
    IF m.start = 0 THEN <<>>
    ELSE <<Strip(DateGroup(m, m.g1)), Strip(PresentNormal(DateGroup(m, m.g2)))>>

\* find_date_range: <<start, end>>, or << >> for None
find_date_range(s) == DateGroups(DateRangeSearch(s))

\* DATE_RANGE_RX.sub("", s) from position p on
\* (the text up to the next match is kept, the match is dropped)
RECURSIVE SubDateRanges(_, _)
DateStarts(s, p) == {q \in p..Len(s) : s[q] \in DateStartCh /\ DateRangeAt(s, q).start # 0}
NextDate(s, starts) == CHOOSE q \in starts : \A r \in starts : q <= r
SubDateFrom(s, p, q) == SubSeq(s, p, q - 1) \o SubDateRanges(s, DateRangeAt(s, q).stop)
SubDateRanges(s, p) ==
    IF DateStarts(s, p) = {} THEN From(s, p) ELSE SubDateFrom(s, p, NextDate(s, DateStarts(s, p)))

\* the characters of .strip(" -–—•·")
DateStripCh == {" ", "-", "ndash", "mdash", "bullet", "middot"}

strip_date_range(s) == StripSet(SubDateRanges(s, 1), DateStripCh)

ROLE_HINTS == <<<<"e", "n", "g", "i", "n", "e", "e", "r">>, <<"d", "e", "v", "e", "l", "o", "p", "e", "r">>, <<"r", "e", "s", "e", "a", "r", "c", "h">>, <<"a", "s", "s", "i", "s", "t", "a", "n", "t">>, <<"i", "n", "t", "e", "r", "n">>, <<"a", "n", "a", "l", "y", "s", "t">>, <<"s", "c", "i", "e", "n", "t", "i", "s", "t">>, <<"m", "a", "n", "a", "g", "e", "r">>, <<"f", "e", "l", "l", "o", "w">>, <<"c", "o", "n", "s", "u", "l", "t", "a", "n", "t">>, <<"l", "e", "a", "d">>, <<"a", "r", "c", "h", "i", "t", "e", "c", "t">>>>

MaxHeaderWords == 12

HasRoleHint(low) == \E h \in 1..Len(ROLE_HINTS) : Contains(low, ROLE_HINTS[h])
HeaderTest(t) ==
    /\ t # <<>>
    /\ ~is_bullet(t)
    /\ \/ find_date_range(t) # <<>>
       \/ HasRoleHint(Lower(t)) /\ Len(SplitWs(t)) <= MaxHeaderWords

likely_role_header(s) == HeaderTest(Strip(s))

\* LOCATION_RX = \b(Remote|[A-Z][a-zA-Z]+,\s*[A-Z]{2})\b at position i:
\* the position after the match, 0 if none
LocationAt(s, i) ==
    LET remote == <<"R", "e", "m", "o", "t", "e">>
        n  == SpanLen(From(s, i), LetterCh)
        c  == i + n
        st == c + 1 + SpanLen(From(s, c + 1), SpaceCh)
        cityEnd == IF /\ i <= Len(s) /\ s[i] \in UpperCh /\ n >= 2
                      /\ c <= Len(s) /\ s[c] = ","
                      /\ st + 1 <= Len(s) /\ s[st] \in UpperCh /\ s[st + 1] \in UpperCh
                      /\ WordBoundary(s, st + 2)
                   THEN st + 2 ELSE 0
    IN  IF ~WordBoundary(s, i) THEN 0
        ELSE IF HasAt(s, i, remote) /\ WordBoundary(s, i + 6) THEN i + 6
        ELSE cityEnd

\* extract_location: the matched text, None if there is none
extract_location(s) ==
    LET hits == {i \in 1..Len(s) : LocationAt(s, i) # 0}
        i0 == CHOOSE i \in hits : \A j \in hits : i <= j
    IN  IF hits = {} THEN None ELSE SubSeq(s, i0, LocationAt(s, i0) - 1)

-----------------------------------------------------------------------------
(* The role splitter: parse.py                                             *)

LongLine == 100

\* role_pattern of _preprocess_experience_lines, used with re.IGNORECASE
\* (\b(?:engineer|developer|research|assistant|intern|analyst|scientist|manager|fellow|consultant|lead|architect)\b.*?)(\b(?:Jan|Feb|Mar|Apr|May|Jun|Jul|Aug|Sep|Oct|Nov|Dec)[a-zA-Z]*\s+\d{4}\s*[\-–—]\s*(?:Present|\w+\s+\d{4})\b)
RolePatternRx ==
    Rx(Cat(<<>>), Cat(<<WordB, Alt(<<Lit(<<"e", "n", "g", "i", "n", "e", "e", "r"
    >>), Lit(<<"d", "e", "v", "e", "l", "o", "p", "e", "r">>), Lit(<<"r", "e",
    "s", "e", "a", "r", "c", "h">>), Lit(<<"a", "s", "s", "i", "s", "t", "a",
    "n", "t">>), Lit(<<"i", "n", "t", "e", "r", "n">>), Lit(<<"a", "n", "a",
    "l", "y", "s", "t">>), Lit(<<"s", "c", "i", "e", "n", "t", "i", "s", "t"
    >>), Lit(<<"m", "a", "n", "a", "g", "e", "r">>), Lit(<<"f", "e", "l", "l",
    "o", "w">>), Lit(<<"c", "o", "n", "s", "u", "l", "t", "a", "n", "t">>),
    Lit(<<"l", "e", "a", "d">>), Lit(<<"a", "r", "c", "h", "i", "t", "e", "c",
    "t">>)>>), WordB, LazyRep(Cls(Chars \ {"nl"}), 0, -1)>>),
    Cat(<<Cat(<<WordB, Alt(<<Lit(<<"J", "a", "n">>), Lit(<<"F", "e", "b">>),
    Lit(<<"M", "a", "r">>), Lit(<<"A", "p", "r">>), Lit(<<"M", "a", "y">>),
    Lit(<<"J", "u", "n">>), Lit(<<"J", "u", "l">>), Lit(<<"A", "u", "g">>),
    Lit(<<"S", "e", "p">>), Lit(<<"O", "c", "t">>), Lit(<<"N", "o", "v">>),
    Lit(<<"D", "e", "c">>)>>), Rep(Cls(UpperCh \cup LowerCh), 0, -1),
    Rep(Cls(SpaceCh), 1, -1), Rep(Cls(DigitCh), 4, 4), Rep(Cls(SpaceCh), 0,
    -1), Cls({"-", "ndash", "mdash"}), Rep(Cls(SpaceCh), 0, -1), Alt(<<Lit(<<
    "P", "r", "e", "s", "e", "n", "t">>), Cat(<<Rep(Cls(WordCh), 1, -1),
    Rep(Cls(SpaceCh), 1, -1), Rep(Cls(DigitCh), 4, 4)>>)>>), WordB>>)>>),
    TRUE)

\* the pieces a long line with two or more role patterns is cut into: the
\* text before each match, the match, and the text after the last one
\* (last is the position after the previous match)
PieceBefore(line, last, m) ==
    IF m.start > last /\ Strip(SubSeq(line, last, m.start - 1)) # <<>>
    THEN <<Strip(SubSeq(line, last, m.start - 1))>>
    ELSE <<>>
RECURSIVE CutAt(_, _, _)
CutAt(line, ms, last) ==
    IF ms = <<>> THEN (IF Strip(From(line, last)) # <<>> THEN <<Strip(From(line, last))>> ELSE <<>>)
    ELSE PieceBefore(line, last, Head(ms))
         \o <<Strip(SubSeq(line, Head(ms).start, Head(ms).stop - 1))>>
         \o CutAt(line, Tail(ms), Head(ms).stop)
CutLine(line, ms) == IF Len(ms) >= 2 THEN CutAt(line, ms, 1) ELSE <<line>>
PreLine(line) == IF Len(line) > LongLine THEN CutLine(line, FindIter(RolePatternRx, line, 1)) ELSE <<line>>

\* _preprocess_experience_lines (the second definition of parse.py, which
\* replaces the first)
RECURSIVE preprocess_experience_lines(_)
preprocess_experience_lines(ls) ==
    IF ls = <<>> THEN <<>> ELSE PreLine(Head(ls)) \o preprocess_experience_lines(Tail(ls))

NonEmptyStr(b) == b # <<>>

\* flush(cur): the roles list afterwards; cur is << >> for the empty dict
flush(rs, cur) ==
    IF cur = <<>> THEN rs
    ELSE LET r == [cur[1] EXCEPT !.bullets = SelectSeq(@, NonEmptyStr)]
         IN  IF r.role # <<>> \/ r.company # <<>> \/ r.bullets # <<>> THEN Append(rs, r) ELSE rs

\* while j < n and lines[j].strip() == "": j += 1   (0-based j)
RECURSIVE SkipBlank(_, _)
SkipBlank(ls, j) ==
    IF j < Len(ls) /\ Strip(ls[j + 1]) = <<>> THEN SkipBlank(ls, j + 1) ELSE j

\* the inner loop of the bullet branch: the index k at which it stops
BlockRow(row) == Strip(row) # <<>> /\ ~likely_role_header(row)
RECURSIVE BlockEnd(_, _)
BlockEnd(ls, k) == IF k < Len(ls) /\ BlockRow(RStrip(ls[k + 1])) THEN BlockEnd(ls, k + 1) ELSE k

\* the characters of .strip(" ,•-–—")
CompanyStripCh == {" ", ",", "bullet", "-", "ndash", "mdash"}

\* the role record started by a header line; dr is find_date_range(ln)
HeaderRoleFrom(ln, dr) ==
    [company |-> <<>>,
     role |-> Strip(IF dr # <<>> THEN strip_date_range(ln) ELSE Strip(ln)),
     location |-> None,
     start |-> IF dr # <<>> THEN dr[1] ELSE <<>>,
     end |-> IF dr = <<>> THEN None
             ELSE IF Lower(dr[2]) # Lower(PresentWord) THEN dr[2] ELSE PresentWord,
     bullets |-> <<>>]
HeaderRole(ln) == HeaderRoleFrom(ln, find_date_range(ln))

\* lines 222-234: the line at j (0-based) is taken as the company line
TakesLine(nxt) == nxt # <<>> /\ ~is_bullet(nxt) /\ ~likely_role_header(nxt)
TakesCompany(ls, j) == j < Len(ls) /\ TakesLine(Strip(ls[j + 1]))
CompanyOf(nxt, loc) ==
    IF loc # None /\ loc # <<>> /\ Contains(nxt, loc)
    THEN StripSet(ReplaceAll(nxt, loc, <<>>), CompanyStripCh)
    ELSE nxt
WithCompany(new, nxt, loc) == [new EXCEPT !.location = loc, !.company = CompanyOf(nxt, loc)]
WithCompanyLine(new, nxt) == WithCompany(new, nxt, extract_location(nxt))

\* lines 203-234 and 270: the open role and the index after a header line
\* at i, j being the first non-blank line after it
HeaderTaken(ls, i, j, new, takes) ==
    [current |-> IF takes THEN <<WithCompanyLine(new, Strip(ls[j + 1]))>> ELSE <<new>>,
     idx |-> (IF takes THEN j ELSE i) + 1]
HeaderAt(ls, i, j) == HeaderTaken(ls, i, j, HeaderRole(RStrip(ls[i + 1])), TakesCompany(ls, j))
\* the header branch without the i += 1 of line 270
HeaderStays(ls, i) == [HeaderAt(ls, i, SkipBlank(ls, i + 1)) EXCEPT !.idx = i]
HeaderStep(ls, i) == HeaderAt(ls, i, SkipBlank(ls, i + 1))

\* lines 237-270: the open role and the index after a bullet block at i
\* that ends before k
BlockTaken(ls, i, k, cur) ==
    [current |-> <<[cur EXCEPT !.bullets = @ \o collect_bullets(
                        [m \in 1..(k - i) |-> RStrip(ls[i + m])])]>>,
     idx |-> (k - 1) + 1]

Placeholder ==
    [company |-> <<>>, role |-> <<>>, location |-> None, start |-> <<>>, end |-> None, bullets |-> <<>>]

AnyRole(r) == TRUE

\* line 277: r.get("bullets")
HasBullets(r) == r.bullets # <<>>

-----------------------------------------------------------------------------
(* Terms and fuzzy matching: utils.py, and rapidfuzz's token_set_ratio as  *)
(* analyze.py and utils.py call it (no processor, so it is case-sensitive) *)

\* [^\w\+\.#-] is replaced by a space
TermKeepCh == WordCh \cup {"+", ".", "#", "-"}

normalize_term(t) == Strip(CollapseSpaces(ReplaceOutside(Lower(Strip(t)), TermKeepCh)))

\* re.split(r"[;,]", ln): the pieces between the separators, empty ones too
RECURSIVE SplitOn(_, _)
SplitOn(s, seps) ==
    LET k == SpanLen(s, Chars \ seps)
    IN  IF k = Len(s) THEN <<s>> ELSE <<SubSeq(s, 1, k)>> \o SplitOn(From(s, k + 2), seps)

StripAll(xs) == [k \in 1..Len(xs) |-> Strip(xs[k])]

\* dedupe_keep_order
RECURSIVE DedupeInto(_, _)
DedupeInto(xs, out) ==
    IF xs = <<>> THEN out
    ELSE DedupeInto(Tail(xs), IF InList(Head(xs), out) THEN out ELSE Append(out, Head(xs)))
dedupe_keep_order(items) == DedupeInto(items, <<>>)

\* the parts one line contributes in explode_terms
PartsOrLine(ln, parts) == IF parts # <<>> THEN parts ELSE <<Strip(ln)>>
ExplodeLine(ln) == PartsOrLine(ln, SelectSeq(StripAll(SplitOn(ln, {";", ","})), NonEmptyStr))

RECURSIVE ExplodeAll(_)
ExplodeAll(ls) == IF ls = <<>> THEN <<>> ELSE ExplodeLine(Head(ls)) \o ExplodeAll(Tail(ls))

NormalizeAll(xs) == [k \in 1..Len(xs) |-> normalize_term(xs[k])]

explode_terms(ls) == dedupe_keep_order(SelectSeq(NormalizeAll(ExplodeAll(ls)), NonEmptyStr))

\* The list glyphs of strip_list_artifacts that the alphabet of this model
\* holds: - • * +
ListGlyphCh == {"-", "bullet", "*", "+"}
RomanCh == {"I", "V", "X", "i", "v", "x"}
CloseCh == {".", ")"}

\* the length of the head that the kind-th pattern matches at the start of r
\* (after the leading whitespace), 0 if it does not match
ArtifactHeadLen(r, kind) ==
    CASE kind = 1 -> IF r # <<>> /\ r[1] \in ListGlyphCh THEN 1 ELSE 0
      [] kind = 2 -> IF SpanLen(r, DigitCh) >= 1 /\ SpanLen(r, DigitCh) < Len(r)
                        /\ r[SpanLen(r, DigitCh) + 1] \in CloseCh
                     THEN SpanLen(r, DigitCh) + 1 ELSE 0
      [] kind = 3 -> IF Len(r) >= 2 /\ r[1] \in LetterCh /\ r[2] \in CloseCh THEN 2 ELSE 0
      [] kind = 4 -> IF SpanLen(r, RomanCh) >= 1 /\ SpanLen(r, RomanCh) < Len(r)
                        /\ r[SpanLen(r, RomanCh) + 1] \in CloseCh
                     THEN SpanLen(r, RomanCh) + 1 ELSE 0

\* re.sub(r"^\s*HEAD\s*", "", s) for the kind-th HEAD
DropHead(s, r, h) == IF h = 0 THEN s ELSE LStrip(From(r, h + 1))
DropArtifact(s, r, kind) == DropHead(s, r, ArtifactHeadLen(r, kind))
StripArtifact(s, kind) == DropArtifact(s, LStrip(s), kind)

StripArtifacts(s) == Strip(StripArtifact(StripArtifact(StripArtifact(StripArtifact(s, 1), 2), 3), 4))

strip_list_artifacts(xs) == SelectSeq([k \in 1..Len(xs) |-> StripArtifacts(xs[k])], NonEmptyStr)

\* the order of str: by code point, a proper prefix first
RECURSIVE StrLess(_, _)
StrLess(a, b) ==
    IF b = <<>> THEN FALSE
    ELSE IF a = <<>> THEN TRUE
    ELSE IF Head(a) # Head(b) THEN CodeOf[Head(a)] < CodeOf[Head(b)]
    ELSE StrLess(Tail(a), Tail(b))

\* " ".join(sorted(tokens)) for a set of tokens
RECURSIVE SortedJoin(_)
SortedJoinFrom(S, least) ==
    IF S = {least} THEN least ELSE least \o <<" ">> \o SortedJoin(S \ {least})
SortedJoin(S) ==
    IF S = {} THEN <<>> ELSE SortedJoinFrom(S, CHOOSE x \in S : \A y \in S \ {x} : StrLess(x, y))

Range(xs) == {xs[k] : k \in 1..Len(xs)}

\* The longest common subsequence of a and b, by rows: row[j + 1] is the
\* length for the part of a read so far and the first j characters of b.
RECURSIVE LcsRow(_, _, _, _)
LcsRow(prev, x, b, cur) ==
    IF Len(cur) = Len(b) + 1 THEN cur
    ELSE LcsRow(prev, x, b,
                Append(cur, IF x = b[Len(cur)] THEN prev[Len(cur)] + 1
                            ELSE Max(prev[Len(cur) + 1], cur[Len(cur)])))
RECURSIVE LcsRows(_, _, _)
LcsRows(a, b, prev) ==
    IF a # <<>> /\ Len(prev) = Len(b) + 1
    THEN LcsRows(Tail(a), b, LcsRow(prev, Head(a), b, <<0>>))
    ELSE prev[Len(b) + 1]
Lcs(a, b) == LcsRows(a, b, [j \in 1..(Len(b) + 1) |-> 0])

\* 100 * (1 - dist / lensum) >= threshold, in integers
SimAtLeast(dist, lensum, threshold) ==
    IF lensum = 0 THEN 100 >= threshold ELSE 100 * (lensum - dist) >= threshold * lensum

\* the Indel similarity of the two joined differences against the lengths
\* with the intersection added; an LCS of min(la, lb) is the best case, so
\* the LCS is computed only when that best case reaches the threshold
DiffAtLeast(da, db, sect, threshold) ==
    /\ SimAtLeast(Len(da) + Len(db) - 2 * Min(Len(da), Len(db)), 2 * sect + Len(da) + Len(db), threshold)
    /\ SimAtLeast(Len(da) + Len(db) - 2 * Lcs(da, db), 2 * sect + Len(da) + Len(db), threshold)

\* the intersection with one difference against the intersection alone:
\* sect is the length of the joined intersection, d of the joined difference
SectAtLeast(sect, d, threshold) == sect # 0 /\ SimAtLeast(1 + d, 2 * sect + 1 + d, threshold)

\* token_set_ratio(s1, s2) >= threshold, from the common tokens and the
\* joined differences.  sect is len(" ".join(intersection)), plus one for
\* the joining space when it is not empty.
TokenSetsAtLeast(both, da, db, sect, threshold) ==
    \/ both # {} /\ (da = <<>> \/ db = <<>>)
    \/ DiffAtLeast(da, db, IF sect = 0 THEN 0 ELSE sect + 1, threshold)
    \/ SectAtLeast(sect, Len(da), threshold)
    \/ SectAtLeast(sect, Len(db), threshold)

TokensAtLeast(ta, tb, threshold) ==
    /\ ta # {}
    /\ tb # {}
    /\ TokenSetsAtLeast(ta \cap tb, SortedJoin(ta \ tb), SortedJoin(tb \ ta),
                        Len(SortedJoin(ta \cap tb)), threshold)

token_set_ratio_at_least(s1, s2, threshold) ==
    TokensAtLeast(Range(SplitWs(s1)), Range(SplitWs(s2)), threshold)

FUZZY_THRESHOLD == 85
FUZZY_THRESHOLD_CANONICAL == 90

\* fuzzy_contains(needle, haystack, threshold)
fuzzy_contains(needle, haystack, threshold) ==
    \E k \in 1..Len(haystack) : token_set_ratio_at_least(needle, haystack[k], threshold)

\* fuzzy_contains_canonical(needle, haystack) with the default threshold
fuzzy_contains_canonical(needle, haystack) ==
    \/ InList(needle, haystack)
    \/ fuzzy_contains(needle, haystack, FUZZY_THRESHOLD_CANONICAL)

-----------------------------------------------------------------------------
(* Job-description normalization: analyze.py                               *)

\* known_technologies of _extract_skills_from_text: lower-case name -> the
\* spelling that is reported
known_technologies ==
    (<<"p", "y", "t", "h", "o", "n">> :> <<"P", "y", "t", "h", "o", "n">>) @@
    (<<"j", "a", "v", "a", "s", "c", "r", "i", "p", "t">> :> <<"J", "a", "v", "a", "S", "c", "r", "i", "p", "t">>) @@
    (<<"t", "y", "p", "e", "s", "c", "r", "i", "p", "t">> :> <<"T", "y", "p", "e", "S", "c", "r", "i", "p", "t">>) @@
    (<<"j", "a", "v", "a">> :> <<"J", "a", "v", "a">>) @@
    (<<"c", "+", "+">> :> <<"C", "+", "+">>) @@
    (<<"c", "#">> :> <<"C", "#">>) @@
    (<<"r", "u", "b", "y">> :> <<"R", "u", "b", "y">>) @@
    (<<"p", "h", "p">> :> <<"P", "H", "P">>) @@
    (<<"g", "o">> :> <<"G", "o">>) @@
    (<<"r", "u", "s", "t">> :> <<"R", "u", "s", "t">>) @@
    (<<"s", "w", "i", "f", "t">> :> <<"S", "w", "i", "f", "t">>) @@
    (<<"k", "o", "t", "l", "i", "n">> :> <<"K", "o", "t", "l", "i", "n">>) @@
    (<<"s", "c", "a", "l", "a">> :> <<"S", "c", "a", "l", "a">>) @@
    (<<"r">> :> <<"R">>) @@
    (<<"r", "e", "a", "c", "t">> :> <<"R", "e", "a", "c", "t">>) @@
    (<<"a", "n", "g", "u", "l", "a", "r">> :> <<"A", "n", "g", "u", "l", "a", "r">>) @@
    (<<"v", "u", "e">> :> <<"V", "u", "e", ".", "j", "s">>) @@
    (<<"s", "v", "e", "l", "t", "e">> :> <<"S", "v", "e", "l", "t", "e">>) @@
    (<<"n", "e", "x", "t", "j", "s">> :> <<"N", "e", "x", "t", ".", "j", "s">>) @@
    (<<"n", "e", "x", "t", ".", "j", "s">> :> <<"N", "e", "x", "t", ".", "j", "s">>) @@
    (<<"n", "u", "x", "t">> :> <<"N", "u", "x", "t", ".", "j", "s">>) @@
    (<<"n", "o", "d", "e", "j", "s">> :> <<"N", "o", "d", "e", ".", "j", "s">>) @@
    (<<"n", "o", "d", "e", ".", "j", "s">> :> <<"N", "o", "d", "e", ".", "j", "s">>) @@
    (<<"e", "x", "p", "r", "e", "s", "s">> :> <<"E", "x", "p", "r", "e", "s", "s", ".", "j", "s">>) @@
    (<<"f", "a", "s", "t", "a", "p", "i">> :> <<"F", "a", "s", "t", "A", "P", "I">>) @@
    (<<"d", "j", "a", "n", "g", "o">> :> <<"D", "j", "a", "n", "g", "o">>) @@
    (<<"f", "l", "a", "s", "k">> :> <<"F", "l", "a", "s", "k">>) @@
    (<<"r", "a", "i", "l", "s">> :> <<"R", "u", "b", "y", " ", "o", "n", " ", "R", "a", "i", "l", "s">>) @@
    (<<"s", "p", "r", "i", "n", "g">> :> <<"S", "p", "r", "i", "n", "g">>) @@
    (<<"l", "a", "r", "a", "v", "e", "l">> :> <<"L", "a", "r", "a", "v", "e", "l">>) @@
    (<<"s", "q", "l">> :> <<"S", "Q", "L">>) @@
    (<<"p", "o", "s", "t", "g", "r", "e", "s", "q", "l">> :> <<"P", "o", "s", "t", "g", "r", "e", "S", "Q", "L">>) @@
    (<<"p", "o", "s", "t", "g", "r", "e", "s">> :> <<"P", "o", "s", "t", "g", "r", "e", "S", "Q", "L">>) @@
    (<<"m", "y", "s", "q", "l">> :> <<"M", "y", "S", "Q", "L">>) @@
    (<<"m", "o", "n", "g", "o", "d", "b">> :> <<"M", "o", "n", "g", "o", "D", "B">>) @@
    (<<"r", "e", "d", "i", "s">> :> <<"R", "e", "d", "i", "s">>) @@
    (<<"e", "l", "a", "s", "t", "i", "c", "s", "e", "a", "r", "c", "h">> :> <<"E", "l", "a", "s", "t", "i", "c", "s", "e", "a", "r", "c", "h">>) @@
    (<<"s", "q", "l", "i", "t", "e">> :> <<"S", "Q", "L", "i", "t", "e">>) @@
    (<<"c", "a", "s", "s", "a", "n", "d", "r", "a">> :> <<"C", "a", "s", "s", "a", "n", "d", "r", "a">>) @@
    (<<"d", "o", "c", "k", "e", "r">> :> <<"D", "o", "c", "k", "e", "r">>) @@
    (<<"k", "u", "b", "e", "r", "n", "e", "t", "e", "s">> :> <<"K", "u", "b", "e", "r", "n", "e", "t", "e", "s">>) @@
    (<<"k", "8", "s">> :> <<"K", "u", "b", "e", "r", "n", "e", "t", "e", "s">>) @@
    (<<"t", "e", "r", "r", "a", "f", "o", "r", "m">> :> <<"T", "e", "r", "r", "a", "f", "o", "r", "m">>) @@
    (<<"j", "e", "n", "k", "i", "n", "s">> :> <<"J", "e", "n", "k", "i", "n", "s">>) @@
    (<<"g", "i", "t", "h", "u", "b">> :> <<"G", "i", "t", "H", "u", "b">>) @@
    (<<"g", "i", "t", "l", "a", "b">> :> <<"G", "i", "t", "L", "a", "b">>) @@
    (<<"a", "w", "s">> :> <<"A", "W", "S">>) @@
    (<<"a", "z", "u", "r", "e">> :> <<"A", "z", "u", "r", "e">>) @@
    (<<"g", "c", "p">> :> <<"G", "C", "P">>) @@
    (<<"g", "o", "o", "g", "l", "e", " ", "c", "l", "o", "u", "d">> :> <<"G", "C", "P">>) @@
    (<<"h", "e", "r", "o", "k", "u">> :> <<"H", "e", "r", "o", "k", "u">>) @@
    (<<"v", "e", "r", "c", "e", "l">> :> <<"V", "e", "r", "c", "e", "l">>) @@
    (<<"n", "e", "t", "l", "i", "f", "y">> :> <<"N", "e", "t", "l", "i", "f", "y">>) @@
    (<<"g", "i", "t">> :> <<"G", "i", "t">>) @@
    (<<"l", "i", "n", "u", "x">> :> <<"L", "i", "n", "u", "x">>) @@
    (<<"b", "a", "s", "h">> :> <<"B", "a", "s", "h">>) @@
    (<<"p", "o", "w", "e", "r", "s", "h", "e", "l", "l">> :> <<"P", "o", "w", "e", "r", "S", "h", "e", "l", "l">>) @@
    (<<"a", "p", "i">> :> <<"A", "P", "I">>) @@
    (<<"r", "e", "s", "t">> :> <<"R", "E", "S", "T">>) @@
    (<<"g", "r", "a", "p", "h", "q", "l">> :> <<"G", "r", "a", "p", "h", "Q", "L">>) @@
    (<<"j", "s", "o", "n">> :> <<"J", "S", "O", "N">>) @@
    (<<"x", "m", "l">> :> <<"X", "M", "L">>) @@
    (<<"h", "t", "m", "l">> :> <<"H", "T", "M", "L">>) @@
    (<<"c", "s", "s">> :> <<"C", "S", "S">>) @@
    (<<"s", "a", "s", "s">> :> <<"S", "a", "s", "s">>) @@
    (<<"s", "c", "s", "s">> :> <<"S", "C", "S", "S">>) @@
    (<<"t", "a", "i", "l", "w", "i", "n", "d">> :> <<"T", "a", "i", "l", "w", "i", "n", "d", " ", "C", "S", "S">>) @@
    (<<"b", "o", "o", "t", "s", "t", "r", "a", "p">> :> <<"B", "o", "o", "t", "s", "t", "r", "a", "p">>) @@
    (<<"a", "g", "i", "l", "e">> :> <<"A", "g", "i", "l", "e">>) @@
    (<<"s", "c", "r", "u", "m">> :> <<"S", "c", "r", "u", "m">>) @@
    (<<"d", "e", "v", "o", "p", "s">> :> <<"D", "e", "v", "O", "p", "s">>) @@
    (<<"c", "i", "/", "c", "d">> :> <<"C", "I", "/", "C", "D">>) @@
    (<<"t", "e", "s", "t", "i", "n", "g">> :> <<"T", "e", "s", "t", "i", "n", "g">>) @@
    (<<"t", "d", "d">> :> <<"T", "D", "D">>) @@
    (<<"j", "u", "n", "i", "t">> :> <<"J", "U", "n", "i", "t">>) @@
    (<<"p", "y", "t", "e", "s", "t">> :> <<"p", "y", "t", "e", "s", "t">>) @@
    (<<"w", "e", "b", "p", "a", "c", "k">> :> <<"W", "e", "b", "p", "a", "c", "k">>) @@
    (<<"v", "i", "t", "e">> :> <<"V", "i", "t", "e">>) @@
    (<<"b", "a", "b", "e", "l">> :> <<"B", "a", "b", "e", "l">>) @@
    (<<"n", "p", "m">> :> <<"n", "p", "m">>) @@
    (<<"y", "a", "r", "n">> :> <<"Y", "a", "r", "n">>)

\* skill_patterns, each compiled with re.IGNORECASE
\* \b(?:experience|proficiency|knowledge|skilled|expertise|familiar)\s+(?:with|in)\s+([A-Za-z][A-Za-z0-9+#\.\/\-\s]*(?:\.[A-Za-z]+)?)\b
ExperienceWithRx ==
    Rx(Cat(<<WordB, Alt(<<Lit(<<"e", "x", "p", "e", "r", "i", "e", "n", "c", "e"
    >>), Lit(<<"p", "r", "o", "f", "i", "c", "i", "e", "n", "c", "y">>),
    Lit(<<"k", "n", "o", "w", "l", "e", "d", "g", "e">>), Lit(<<"s", "k", "i",
    "l", "l", "e", "d">>), Lit(<<"e", "x", "p", "e", "r", "t", "i", "s", "e"
    >>), Lit(<<"f", "a", "m", "i", "l", "i", "a", "r">>)>>), Rep(Cls(SpaceCh),
    1, -1), Alt(<<Lit(<<"w", "i", "t", "h">>), Lit(<<"i", "n">>)>>),
    Rep(Cls(SpaceCh), 1, -1)>>), Cat(<<Cls(UpperCh \cup LowerCh),
    Rep(Cls(SpaceCh \cup UpperCh \cup LowerCh \cup DigitCh \cup {"#", "+", "-",
    ".", "/"}), 0, -1), Rep(Cat(<<Lit(<<".">>), Rep(Cls(UpperCh \cup LowerCh),
    1, -1)>>), 0, 1)>>), Cat(<<WordB>>), TRUE)
\* \b(?:using|leveraging|utilizing)\s+([A-Za-z][A-Za-z0-9+#\.\/\-,\s&]+)\b
UsingRx ==
    Rx(Cat(<<WordB, Alt(<<Lit(<<"u", "s", "i", "n", "g">>), Lit(<<"l", "e", "v",
    "e", "r", "a", "g", "i", "n", "g">>), Lit(<<"u", "t", "i", "l", "i", "z",
    "i", "n", "g">>)>>), Rep(Cls(SpaceCh), 1, -1)>>),
    Cat(<<Cls(UpperCh \cup LowerCh),
    Rep(Cls(SpaceCh \cup UpperCh \cup LowerCh \cup DigitCh \cup {"#", "&", "+",
    ",", "-", ".", "/"}), 1, -1)>>), Cat(<<WordB>>), TRUE)
\* \b([A-Z][A-Za-z+#\.]*(?:\.[A-Za-z]+)?(?:\s*[,&]\s*(?:and\s+)?[A-Z][A-Za-z+#\.]*(?:\.[A-Za-z]+)?)+)\b
TechListRx ==
    Rx(Cat(<<WordB>>), Cat(<<Cls(UpperCh), Rep(Cls(UpperCh \cup LowerCh \cup {"#",
    "+", "."}), 0, -1), Rep(Cat(<<Lit(<<".">>), Rep(Cls(UpperCh \cup LowerCh),
    1, -1)>>), 0, 1), Rep(Cat(<<Rep(Cls(SpaceCh), 0, -1), Cls({"&", ","}),
    Rep(Cls(SpaceCh), 0, -1), Rep(Cat(<<Lit(<<"a", "n", "d">>),
    Rep(Cls(SpaceCh), 1, -1)>>), 0, 1), Cls(UpperCh),
    Rep(Cls(UpperCh \cup LowerCh \cup {"#", "+", "."}), 0, -1),
    Rep(Cat(<<Lit(<<".">>), Rep(Cls(UpperCh \cup LowerCh), 1, -1)>>), 0, 1)>>),
    1, -1)>>), Cat(<<WordB>>), TRUE)
\* \b(Python|JavaScript|TypeScript|React|Node\.js|Angular|Vue\.js|Django|Flask|PostgreSQL|MongoDB|Docker|Kubernetes|AWS|Azure|GCP)\b
DirectMentionRx ==
    Rx(Cat(<<WordB>>), Alt(<<Lit(<<"P", "y", "t", "h", "o", "n">>), Lit(<<"J", "a",
    "v", "a", "S", "c", "r", "i", "p", "t">>), Lit(<<"T", "y", "p", "e", "S",
    "c", "r", "i", "p", "t">>), Lit(<<"R", "e", "a", "c", "t">>), Lit(<<"N",
    "o", "d", "e", ".", "j", "s">>), Lit(<<"A", "n", "g", "u", "l", "a", "r"
    >>), Lit(<<"V", "u", "e", ".", "j", "s">>), Lit(<<"D", "j", "a", "n", "g",
    "o">>), Lit(<<"F", "l", "a", "s", "k">>), Lit(<<"P", "o", "s", "t", "g",
    "r", "e", "S", "Q", "L">>), Lit(<<"M", "o", "n", "g", "o", "D", "B">>),
    Lit(<<"D", "o", "c", "k", "e", "r">>), Lit(<<"K", "u", "b", "e", "r", "n",
    "e", "t", "e", "s">>), Lit(<<"A", "W", "S">>), Lit(<<"A", "z", "u", "r",
    "e">>), Lit(<<"G", "C", "P">>)>>), Cat(<<WordB>>), TRUE)
skill_patterns == <<ExperienceWithRx, UsingRx, TechListRx, DirectMentionRx>>

\* \s*[,&]\s*(?:and\s+)?
ListSplitRx ==
    RxAll(Cat(<<Rep(Cls(SpaceCh), 0, -1), Cls({"&", ","}), Rep(Cls(SpaceCh), 0,
    -1), Rep(Cat(<<Lit(<<"a", "n", "d">>), Rep(Cls(SpaceCh), 1, -1)>>), 0,
    1)>>), FALSE)
\* \b[A-Za-z][A-Za-z0-9+#\.-]*(?:\.[A-Za-z]+)?\b
TechWordRx ==
    RxAll(Cat(<<WordB, Cls(UpperCh \cup LowerCh),
    Rep(Cls(UpperCh \cup LowerCh \cup DigitCh \cup {"#", "+", "-", "."}), 0,
    -1), Rep(Cat(<<Lit(<<".">>), Rep(Cls(UpperCh \cup LowerCh), 1, -1)>>), 0,
    1), WordB>>), FALSE)
\* [.!;]
SentenceEndRx ==
    RxAll(Cls({"!", ".", ";"}), FALSE)
\* ^\s*[-\u2022\u2022\*\d+\.\)]\s*
LeadGlyphRx ==
    RxAll(Cat(<<Bol, Rep(Cls(SpaceCh), 0, -1), Cls(DigitCh \cup {")", "*", "+",
    "-", ".", "bullet"}), Rep(Cls(SpaceCh), 0, -1)>>), FALSE)
\* \s+(?:and|&)\s+(?=\w+ing|\w+\s+\w+)
ConjunctionRx ==
    RxAll(Cat(<<Rep(Cls(SpaceCh), 1, -1), Alt(<<Lit(<<"a", "n", "d">>), Lit(<<"&"
    >>)>>), Rep(Cls(SpaceCh), 1, -1), Ahead(Alt(<<Cat(<<Rep(Cls(WordCh), 1,
    -1), Lit(<<"i", "n", "g">>)>>), Cat(<<Rep(Cls(WordCh), 1, -1),
    Rep(Cls(SpaceCh), 1, -1), Rep(Cls(WordCh), 1, -1)>>)>>))>>), FALSE)
\* \bwork\s+(?:closely\s+)?with\b   (re.I)
WorkWithRx ==
    RxAll(Cat(<<WordB, Lit(<<"w", "o", "r", "k">>), Rep(Cls(SpaceCh), 1, -1),
    Rep(Cat(<<Lit(<<"c", "l", "o", "s", "e", "l", "y">>), Rep(Cls(SpaceCh), 1,
    -1)>>), 0, 1), Lit(<<"w", "i", "t", "h">>), WordB>>), TRUE)
\* \bdevelop\s+and\s+maintain\b   (re.I)
DevelopMaintainRx ==
    RxAll(Cat(<<WordB, Lit(<<"d", "e", "v", "e", "l", "o", "p">>),
    Rep(Cls(SpaceCh), 1, -1), Lit(<<"a", "n", "d">>), Rep(Cls(SpaceCh), 1, -1),
    Lit(<<"m", "a", "i", "n", "t", "a", "i", "n">>), WordB>>), TRUE)
\* \bdesign\s+and\s+implement\b   (re.I)
DesignImplementRx ==
    RxAll(Cat(<<WordB, Lit(<<"d", "e", "s", "i", "g", "n">>), Rep(Cls(SpaceCh), 1,
    -1), Lit(<<"a", "n", "d">>), Rep(Cls(SpaceCh), 1, -1), Lit(<<"i", "m", "p",
    "l", "e", "m", "e", "n", "t">>), WordB>>), TRUE)

\* the words that are never taken as a skill
NotSkillWords ==
    {<<"a", "n", "d">>, <<"o", "r">>, <<"w", "i", "t", "h">>, <<"u", "s", "i", "n",
    "g">>, <<"i", "n", "c", "l", "u", "d", "i", "n", "g">>, <<"t", "h", "e">>,
    <<"a">>, <<"a", "n">>, <<"t", "o">>, <<"o", "f">>, <<"f", "o", "r">>, <<
    "i", "n">>, <<"o", "n">>}

\* Python's None where a list is expected
NoList == <<None>>
\* x or []
OrEmptyList(x) == IF x = NoList THEN <<>> ELSE x
\* x or ""
OrEmptyStr(x) == IF x = None THEN <<>> ELSE x

\* one part of a candidate, stripped: the skills it adds to the set
PartSkillOf(part, low) ==
    IF Len(part) > 1 /\ low \notin NotSkillWords
    THEN IF low \in DOMAIN known_technologies THEN {known_technologies[low]}
         ELSE IF Len(part) > 2 THEN {part} ELSE {}
    ELSE {}
PartSkill(part) == PartSkillOf(part, Lower(part))

\* a candidate, stripped: re.split on commas and ampersands, part by part
CandidateSkills(candidate) ==
    UNION {PartSkill(Strip(p)) : p \in Range(Split(ListSplitRx, candidate))}

\* re.finditer(pattern, text, re.IGNORECASE), group 1 of each match
PatternSkills(rx, text) ==
    UNION {CandidateSkills(Strip(c)) : c \in Range(GroupTexts(text, FindIter(rx, text, 1)))}

\* re.findall of the technology word pattern, looked up in the table
WordSkillOf(low) == IF low \in DOMAIN known_technologies THEN {known_technologies[low]} ELSE {}
WordSkills(text) ==
    UNION {WordSkillOf(Lower(x)) : x \in Range(GroupTexts(text, FindIter(TechWordRx, text, 1)))}

TextSkills(text) ==
    IF text = <<>> THEN {}
    ELSE UNION {PatternSkills(skill_patterns[k], text) : k \in DOMAIN skill_patterns}
            \cup WordSkills(text)

\* _extract_skills_from_text builds a set; list(extracted) then has the
\* elements in the order in which the set iterates
extract_skills_from_text(text_sources) == UNION {TextSkills(t) : t \in Range(text_sources)}

\* the orders in which list(a set) can come out
Orders(S) ==
    {o \in [1..Cardinality(S) -> S] : \A a, b \in 1..Cardinality(S) : a # b => o[a] # o[b]}

\* one part of a sentence, stripped
ProcessPart(part) ==
    IF Len(part) > 8
    THEN <<Sub(DesignImplementRx,
               Sub(DevelopMaintainRx,
                   Sub(WorkWithRx, part, <<"c", "o", "l", "l", "a", "b", "o", "r", "a", "t", "e", " ", "w", "i", "t", "h">>),
                   <<"b", "u", "i", "l", "d">>),
               <<"c", "r", "e", "a", "t", "e">>)>>
    ELSE <<>>

RECURSIVE ProcessParts(_)
ProcessParts(parts) ==
    IF parts = <<>> THEN <<>>
    ELSE ProcessPart(Strip(Head(parts))) \o ProcessParts(Tail(parts))

\* one sentence, stripped
ProcessSentence(sentence) ==
    IF Len(sentence) < 10 THEN <<>>
    ELSE ProcessParts(Split(ConjunctionRx, Sub(LeadGlyphRx, sentence, <<>>)))

RECURSIVE ProcessSentences(_)
ProcessSentences(sentences) ==
    IF sentences = <<>> THEN <<>>
    ELSE ProcessSentence(Strip(Head(sentences))) \o ProcessSentences(Tail(sentences))

RECURSIVE process_responsibilities(_)
process_responsibilities(resp_sources) ==
    IF resp_sources = <<>> THEN <<>>
    ELSE ProcessSentences(Split(SentenceEndRx, Head(resp_sources)))
             \o process_responsibilities(Tail(resp_sources))

\* A job description is a record of the JDSchema fields; the other keys
\* that normalization looks up are absent from it.
SkillSources(jd) == jd.skills \o jd.required \o OrEmptyList(jd.preferred)
TitleSource(title) == IF title = <<>> THEN <<>> ELSE <<title>>
AllTextSources(jd) == SkillSources(jd) \o jd.responsibilities \o TitleSource(OrEmptyStr(jd.title))

LongerThan(xs, n) == SelectSeq(xs, LAMBDA x : Len(x) > n)
MinSkillLen == 1
MinResponsibilityLen == 3

\* enhanced_jd_normalization, with the extracted skills in the order given
enhanced_jd_normalization(jd, extracted) ==
    [skills |-> dedupe_keep_order(LongerThan(
                    canonicalize_terms(explode_terms(strip_list_artifacts(SkillSources(jd) \o extracted))),
                    MinSkillLen)),
     responsibilities |-> dedupe_keep_order(LongerThan(
                    NormalizeAll(explode_terms(strip_list_artifacts(
                        process_responsibilities(jd.responsibilities)))),
                    MinResponsibilityLen))]

\* normalize_jd, used when ENHANCED_JD_NORMALIZATION is off
normalize_jd(jd) ==
    [skills |-> dedupe_keep_order(LongerThan(
                    canonicalize_terms(explode_terms(strip_list_artifacts(SkillSources(jd)))), 0)),
     responsibilities |-> dedupe_keep_order(LongerThan(
                    NormalizeAll(explode_terms(strip_list_artifacts(jd.responsibilities))), 0))]

-----------------------------------------------------------------------------
(* Scores: analyze.py                                                      *)

ACTION_VERBS ==
    {<<"b", "u", "i", "l", "d">>, <<"b", "u", "i", "l", "t">>, <<"d", "e", "s", "i",
    "g", "n">>, <<"d", "e", "s", "i", "g", "n", "e", "d">>, <<"i", "m", "p",
    "l", "e", "m", "e", "n", "t">>, <<"i", "m", "p", "l", "e", "m", "e", "n",
    "t", "e", "d">>, <<"o", "p", "t", "i", "m", "i", "z", "e">>, <<"o", "p",
    "t", "i", "m", "i", "z", "e", "d">>, <<"d", "e", "p", "l", "o", "y">>, <<
    "d", "e", "p", "l", "o", "y", "e", "d">>, <<"a", "u", "t", "o", "m", "a",
    "t", "e">>, <<"a", "u", "t", "o", "m", "a", "t", "e", "d">>, <<"l", "e",
    "a", "d">>, <<"l", "e", "d">>, <<"o", "w", "n">>, <<"o", "w", "n", "e",
    "d">>, <<"s", "c", "a", "l", "e">>, <<"s", "c", "a", "l", "e", "d">>, <<
    "m", "i", "g", "r", "a", "t", "e">>, <<"m", "i", "g", "r", "a", "t", "e",
    "d">>, <<"i", "m", "p", "r", "o", "v", "e">>, <<"i", "m", "p", "r", "o",
    "v", "e", "d">>, <<"r", "e", "d", "u", "c", "e">>, <<"r", "e", "d", "u",
    "c", "e", "d">>, <<"i", "n", "c", "r", "e", "a", "s", "e">>, <<"i", "n",
    "c", "r", "e", "a", "s", "e", "d">>, <<"d", "e", "l", "i", "v", "e", "r">>,
    <<"d", "e", "l", "i", "v", "e", "r", "e", "d">>, <<"a", "r", "c", "h", "i",
    "t", "e", "c", "t">>, <<"a", "r", "c", "h", "i", "t", "e", "c", "t", "e",
    "d">>, <<"m", "o", "n", "i", "t", "o", "r">>, <<"m", "o", "n", "i", "t",
    "o", "r", "e", "d">>, <<"d", "e", "b", "u", "g">>, <<"d", "e", "b", "u",
    "g", "g", "e", "d">>}

\* \b[A-Za-z]{3,}\b
TitleWordRx ==
    RxAll(Cat(<<WordB, Rep(Cls(UpperCh \cup LowerCh), 3, -1), WordB>>), FALSE)
\* stop_words of _compute_domain_bonus
TitleStopWords ==
    {<<"t", "h", "e">>, <<"a", "n", "d">>, <<"f", "o", "r">>, <<"w", "i", "t", "h"
    >>, <<"s", "e", "n", "i", "o", "r">>, <<"j", "u", "n", "i", "o", "r">>, <<
    "l", "e", "a", "d">>, <<"p", "r", "i", "n", "c", "i", "p", "a", "l">>, <<
    "s", "t", "a", "f", "f">>}

\* Ratios and partial scores are fixed-point numbers in millionths, like
\* the recency weights.
Million == 1000000

\* round(num / den) for den > 0: Python rounds a tie to the even neighbour
RoundTo(q, r2, den) == IF r2 > den \/ (r2 = den /\ q % 2 = 1) THEN q + 1 ELSE q
RoundHalfEven(num, den) == RoundTo(num \div den, 2 * (num % den), den)

\* n / max(1, d) in millionths
Ratio(n, d) == RoundHalfEven(n * Million, Max(1, d))
\* round(100 * n / max(1, d))
Pct(n, d) == RoundHalfEven(100 * n, Max(1, d))

\* the bullets of all roles, in the order of the roles
RECURSIVE AllBullets(_)
AllBullets(experience) ==
    IF experience = <<>> THEN <<>>
    ELSE Head(experience).bullets \o AllBullets(Tail(experience))

\* the targets that no haystack entry matches, taken for the present ones
AbsentIn(targets, hay, threshold) ==
    SelectSeq(targets, LAMBDA t : ~fuzzy_contains(t, hay, threshold))

\* coverage_canonical: the targets a haystack entry matches, and the others
PresentIn(targets, hay, threshold) ==
    SelectSeq(targets, LAMBDA t : fuzzy_contains(t, hay, threshold))
\* every target reported missing, the present ones too
AllTargets(targets, present) == targets
MissingFrom(targets, present) == SelectSeq(targets, LAMBDA t : ~InList(t, present))

\* verb_alignment, in millionths
VerbHits(jd_verbs, resume_bullets) ==
    Cardinality({k \in 1..Len(jd_verbs) : fuzzy_contains(jd_verbs[k], resume_bullets, FUZZY_THRESHOLD)})
GenericVerbHits(resume_bullets) ==
    Cardinality({v \in ACTION_VERBS : fuzzy_contains(v, resume_bullets, FUZZY_THRESHOLD)})
VerbRatio(jd_verbs, resume_bullets) ==
    IF jd_verbs = <<>>
    THEN Ratio(GenericVerbHits(resume_bullets), Cardinality(ACTION_VERBS))
    ELSE Ratio(VerbHits(jd_verbs, resume_bullets), Len(jd_verbs))
verb_alignment(jd_verbs_src, resume_bullets) ==
    VerbRatio(SelectSeq(explode_terms(jd_verbs_src), LAMBDA w : w \in ACTION_VERBS), resume_bullets)

\* hygiene, in millionths
NoBulletsHygiene == 200000
GoodLenMin == 8
GoodLenMax == 30
HasDigit(b) == \E k \in 1..Len(b) : b[k] \in DigitCh
WordCount(b) == Len(SplitWs(b))
GoodLen(n) == GoodLenMin <= n /\ n <= GoodLenMax
HygieneOf(bullets) ==
    IF bullets = <<>> THEN NoBulletsHygiene
    ELSE Min(Million, Max(0,
             (Cardinality({k \in 1..Len(bullets) : GoodLen(WordCount(bullets[k]))}) * (Million \div 2)) \div Len(bullets)
           + (Cardinality({k \in 1..Len(bullets) : HasDigit(bullets[k])}) * (Million \div 2)) \div Len(bullets)))
hygiene(resume) == HygieneOf(AllBullets(resume.experience))

\* _calculate_role_duration
DefaultDuration == 12
IsPresent(x) == x # None /\ Lower(Strip(x)) = <<"p", "r", "e", "s", "e", "n", "t">>
DurationBetween(start_date, end_date) ==
    IF start_date = NoDate \/ end_date = NoDate THEN DefaultDuration
    ELSE Max(1, (end_date.year - start_date.year) * 12 + (end_date.month - start_date.month))
calculate_role_duration(role, today) ==
    IF ~IsNonEmptyStr(role.start) THEN DefaultDuration
    ELSE DurationBetween(parse_month_year(role.start, today),
                         IF IsPresent(role.end) THEN today ELSE parse_month_year(role.end, today))

\* base_weight * min(1.2, 1.0 + duration_months / 120), in millionths
FullBoostMonths == 24
BoostMonths == 120
Enhanced(base_weight, duration_months) ==
    IF duration_months >= FullBoostMonths THEN base_weight + base_weight \div 5
    ELSE base_weight + (base_weight * duration_months) \div BoostMonths

\* the strings of a role, and of a project, in which a core term is looked for
NormalizedIf(x) == IF IsNonEmptyStr(x) THEN <<normalize_term(x)>> ELSE <<>>
RolePool(role) == NormalizeAll(role.bullets) \o NormalizedIf(role.role) \o NormalizedIf(role.company)
ProjectPool(project) == NormalizedIf(project.name) \o NormalizeAll(project.bullets)
\* only the first of the core terms is looked for
FirstCoreTerm(core_terms, pool) ==
    core_terms # <<>> /\ fuzzy_contains_canonical(core_terms[1], pool)

\* for term in core_terms: if fuzzy_contains_canonical(term, pool): ... break
HasCoreTerm(core_terms, pool) ==
    \E k \in 1..Len(core_terms) : fuzzy_contains_canonical(core_terms[k], pool)

ProjectWeight == 700000
RECURSIVE RoleWeights(_, _, _)
RoleWeights(experience, core_terms, today) ==
    IF experience = <<>> THEN <<>>
    ELSE (IF HasCoreTerm(core_terms, RolePool(Head(experience)))
          THEN <<Enhanced(role_recency_weight(Head(experience), today),
                          calculate_role_duration(Head(experience), today))>>
          ELSE <<>>) \o RoleWeights(Tail(experience), core_terms, today)
RECURSIVE ProjectWeights(_, _)
ProjectWeights(projects, core_terms) ==
    IF projects = <<>> THEN <<>>
    ELSE (IF HasCoreTerm(core_terms, ProjectPool(Head(projects))) THEN <<ProjectWeight>> ELSE <<>>)
             \o ProjectWeights(Tail(projects), core_terms)

RECURSIVE SumOf(_)
SumOf(xs) == IF xs = <<>> THEN 0 ELSE Head(xs) + SumOf(Tail(xs))
AverageWeight(all_weights) ==
    IF all_weights = <<>> THEN 0 ELSE Min(Million, RoundHalfEven(SumOf(all_weights), Len(all_weights)))

\* the projects of a resume may be None
NoProjects == <<[name |-> None, bullets |-> <<>>]>>
OrNoProjects(x) == IF x = NoProjects THEN <<>> ELSE x

\* _enhanced_recency_score, the score only, in millionths
RecencyOf(experience, projects, core_terms, today) ==
    IF core_terms = <<>> \/ (experience = <<>> /\ projects = <<>>) THEN 0
    ELSE AverageWeight(RoleWeights(experience, core_terms, today) \o ProjectWeights(projects, core_terms))
enhanced_recency_score(resume, core_terms, today) ==
    RecencyOf(resume.experience, OrNoProjects(resume.projects), core_terms, today)

\* _compute_domain_bonus
MaxBonus == 15
TitleKeywords(title) ==
    SelectSeq(GroupTexts(title, FindIter(TitleWordRx, title, 1)), LAMBDA w : w \notin TitleStopWords)
RoleTitles(experience) ==
    SelectSeq([k \in 1..Len(experience) |-> Lower(OrEmptyStr(experience[k].role))], NonEmptyStr)
KeywordMatches(keywords, resume_roles) ==
    Cardinality({k \in 1..Len(keywords) : \E r \in 1..Len(resume_roles) : Contains(resume_roles[r], keywords[k])})
BonusFor(matches, total_keywords) ==
    IF matches = 0 THEN 0 ELSE Min(MaxBonus, (matches * MaxBonus) \div total_keywords)
\* the whole bonus as soon as one keyword is found
AnyBonus(keywords, resume_roles) ==
    IF KeywordMatches(keywords, resume_roles) = 0 THEN 0 ELSE MaxBonus
BonusOf(keywords, resume_roles) ==
    IF keywords = <<>> \/ resume_roles = <<>> THEN 0
    ELSE BonusFor(KeywordMatches(keywords, resume_roles), Len(keywords))
compute_domain_bonus(resume, jd) ==
    IF OrEmptyStr(jd.title) = <<>> THEN 0
    ELSE BonusOf(TitleKeywords(Lower(jd.title)), RoleTitles(resume.experience))

-----------------------------------------------------------------------------
(* Hygiene flags: utils.py                                                 *)

\* WEAK_PHRASES, each compiled with re.IGNORECASE
WEAK_PATTERNS == <<
    \* \b(participated in|involved in|responsible for|worked on|helped|assisted|contributed to|supported)\b
    Rx(Cat(<<WordB>>), Alt(<<Lit(<<"p", "a", "r", "t", "i", "c", "i", "p", "a",
        "t", "e", "d", " ", "i", "n">>), Lit(<<"i", "n", "v", "o", "l", "v",
        "e", "d", " ", "i", "n">>), Lit(<<"r", "e", "s", "p", "o", "n", "s",
        "i", "b", "l", "e", " ", "f", "o", "r">>), Lit(<<"w", "o", "r", "k",
        "e", "d", " ", "o", "n">>), Lit(<<"h", "e", "l", "p", "e", "d">>),
        Lit(<<"a", "s", "s", "i", "s", "t", "e", "d">>), Lit(<<"c", "o", "n",
        "t", "r", "i", "b", "u", "t", "e", "d", " ", "t", "o">>), Lit(<<"s",
        "u", "p", "p", "o", "r", "t", "e", "d">>)>>), Cat(<<WordB>>), TRUE),
    \* \b(tasked with|assigned to|engaged in|took part in|played a role in)\b
    Rx(Cat(<<WordB>>), Alt(<<Lit(<<"t", "a", "s", "k", "e", "d", " ", "w", "i",
        "t", "h">>), Lit(<<"a", "s", "s", "i", "g", "n", "e", "d", " ", "t",
        "o">>), Lit(<<"e", "n", "g", "a", "g", "e", "d", " ", "i", "n">>),
        Lit(<<"t", "o", "o", "k", " ", "p", "a", "r", "t", " ", "i", "n">>),
        Lit(<<"p", "l", "a", "y", "e", "d", " ", "a", " ", "r", "o", "l", "e",
        " ", "i", "n">>)>>), Cat(<<WordB>>), TRUE),
    \* \b(was responsible|was involved|was tasked|was assigned)\b
    Rx(Cat(<<WordB>>), Cat(<<Lit(<<"w", "a", "s", " ">>), Alt(<<Lit(<<"r", "e",
        "s", "p", "o", "n", "s", "i", "b", "l", "e">>), Lit(<<"i", "n", "v",
        "o", "l", "v", "e", "d">>), Lit(<<"t", "a", "s", "k", "e", "d">>),
        Lit(<<"a", "s", "s", "i", "g", "n", "e", "d">>)>>)>>), Cat(<<WordB>>),
        TRUE),
    \* \b(various|multiple|several|many|some|different)\s+(projects|tasks|activities|initiatives)\b
    Rx(Cat(<<WordB>>), Alt(<<Lit(<<"v", "a", "r", "i", "o", "u", "s">>), Lit(<<"m",
        "u", "l", "t", "i", "p", "l", "e">>), Lit(<<"s", "e", "v", "e", "r",
        "a", "l">>), Lit(<<"m", "a", "n", "y">>), Lit(<<"s", "o", "m", "e">>),
        Lit(<<"d", "i", "f", "f", "e", "r", "e", "n", "t">>)>>),
        Cat(<<Rep(Cls(SpaceCh), 1, -1), Alt(<<Lit(<<"p", "r", "o", "j", "e",
        "c", "t", "s">>), Lit(<<"t", "a", "s", "k", "s">>), Lit(<<"a", "c",
        "t", "i", "v", "i", "t", "i", "e", "s">>), Lit(<<"i", "n", "i", "t",
        "i", "a", "t", "i", "v", "e", "s">>)>>), WordB>>), TRUE),
    \* \b(gained experience|learned about|worked with|familiar with|exposure to)\b
    Rx(Cat(<<WordB>>), Alt(<<Lit(<<"g", "a", "i", "n", "e", "d", " ", "e", "x",
        "p", "e", "r", "i", "e", "n", "c", "e">>), Lit(<<"l", "e", "a", "r",
        "n", "e", "d", " ", "a", "b", "o", "u", "t">>), Lit(<<"w", "o", "r",
        "k", "e", "d", " ", "w", "i", "t", "h">>), Lit(<<"f", "a", "m", "i",
        "l", "i", "a", "r", " ", "w", "i", "t", "h">>), Lit(<<"e", "x", "p",
        "o", "s", "u", "r", "e", " ", "t", "o">>)>>), Cat(<<WordB>>), TRUE),
    \* \b(attended|participated in)\s+(meetings|training|workshops|sessions)\b
    Rx(Cat(<<WordB>>), Alt(<<Lit(<<"a", "t", "t", "e", "n", "d", "e", "d">>),
        Lit(<<"p", "a", "r", "t", "i", "c", "i", "p", "a", "t", "e", "d", " ",
        "i", "n">>)>>), Cat(<<Rep(Cls(SpaceCh), 1, -1), Alt(<<Lit(<<"m", "e",
        "e", "t", "i", "n", "g", "s">>), Lit(<<"t", "r", "a", "i", "n", "i",
        "n", "g">>), Lit(<<"w", "o", "r", "k", "s", "h", "o", "p", "s">>),
        Lit(<<"s", "e", "s", "s", "i", "o", "n", "s">>)>>), WordB>>), TRUE),
    \* \b(numerous|countless|significant|substantial|considerable)\b(?!\s+\d)
    Rx(Cat(<<WordB>>), Alt(<<Lit(<<"n", "u", "m", "e", "r", "o", "u", "s">>),
        Lit(<<"c", "o", "u", "n", "t", "l", "e", "s", "s">>), Lit(<<"s", "i",
        "g", "n", "i", "f", "i", "c", "a", "n", "t">>), Lit(<<"s", "u", "b",
        "s", "t", "a", "n", "t", "i", "a", "l">>), Lit(<<"c", "o", "n", "s",
        "i", "d", "e", "r", "a", "b", "l", "e">>)>>), Cat(<<WordB,
        NotAhead(Cat(<<Rep(Cls(SpaceCh), 1, -1), Cls(DigitCh)>>))>>), TRUE),
    \* \b(helped to|assisted in|contributed to)\s+(?:improve|increase|reduce|enhance)\b
    Rx(Cat(<<WordB>>), Alt(<<Lit(<<"h", "e", "l", "p", "e", "d", " ", "t", "o">>),
        Lit(<<"a", "s", "s", "i", "s", "t", "e", "d", " ", "i", "n">>), Lit(<<
        "c", "o", "n", "t", "r", "i", "b", "u", "t", "e", "d", " ", "t", "o"
        >>)>>), Cat(<<Rep(Cls(SpaceCh), 1, -1), Alt(<<Lit(<<"i", "m", "p", "r",
        "o", "v", "e">>), Lit(<<"i", "n", "c", "r", "e", "a", "s", "e">>),
        Lit(<<"r", "e", "d", "u", "c", "e">>), Lit(<<"e", "n", "h", "a", "n",
        "c", "e">>)>>), WordB>>), TRUE),
    \* ^\s*(duties included|responsibilities included|job duties|main tasks)\b
    Rx(Cat(<<Bol, Rep(Cls(SpaceCh), 0, -1)>>), Alt(<<Lit(<<"d", "u", "t", "i", "e",
        "s", " ", "i", "n", "c", "l", "u", "d", "e", "d">>), Lit(<<"r", "e",
        "s", "p", "o", "n", "s", "i", "b", "i", "l", "i", "t", "i", "e", "s",
        " ", "i", "n", "c", "l", "u", "d", "e", "d">>), Lit(<<"j", "o", "b",
        " ", "d", "u", "t", "i", "e", "s">>), Lit(<<"m", "a", "i", "n", " ",
        "t", "a", "s", "k", "s">>)>>), Cat(<<WordB>>), TRUE),
    \* ^\s*(performed|conducted|executed)\s+(various|different|multiple)\b
    Rx(Cat(<<Bol, Rep(Cls(SpaceCh), 0, -1)>>), Alt(<<Lit(<<"p", "e", "r", "f", "o",
        "r", "m", "e", "d">>), Lit(<<"c", "o", "n", "d", "u", "c", "t", "e",
        "d">>), Lit(<<"e", "x", "e", "c", "u", "t", "e", "d">>)>>),
        Cat(<<Rep(Cls(SpaceCh), 1, -1), Alt(<<Lit(<<"v", "a", "r", "i", "o",
        "u", "s">>), Lit(<<"d", "i", "f", "f", "e", "r", "e", "n", "t">>),
        Lit(<<"m", "u", "l", "t", "i", "p", "l", "e">>)>>), WordB>>), TRUE) >>

\* impact_verbs of _lacks_impact_verbs, each compiled with re.IGNORECASE
impact_patterns == <<
    \* \b(built|designed|implemented|optimized|scaled|automated|migrated|deployed)\b
    Rx(Cat(<<WordB>>), Alt(<<Lit(<<"b", "u", "i", "l", "t">>), Lit(<<"d", "e", "s",
        "i", "g", "n", "e", "d">>), Lit(<<"i", "m", "p", "l", "e", "m", "e",
        "n", "t", "e", "d">>), Lit(<<"o", "p", "t", "i", "m", "i", "z", "e",
        "d">>), Lit(<<"s", "c", "a", "l", "e", "d">>), Lit(<<"a", "u", "t",
        "o", "m", "a", "t", "e", "d">>), Lit(<<"m", "i", "g", "r", "a", "t",
        "e", "d">>), Lit(<<"d", "e", "p", "l", "o", "y", "e", "d">>)>>),
        Cat(<<WordB>>), TRUE),
    \* \b(refactored|reduced|increased|improved|led|delivered|architected|developed)\b
    Rx(Cat(<<WordB>>), Alt(<<Lit(<<"r", "e", "f", "a", "c", "t", "o", "r", "e",
        "d">>), Lit(<<"r", "e", "d", "u", "c", "e", "d">>), Lit(<<"i", "n",
        "c", "r", "e", "a", "s", "e", "d">>), Lit(<<"i", "m", "p", "r", "o",
        "v", "e", "d">>), Lit(<<"l", "e", "d">>), Lit(<<"d", "e", "l", "i",
        "v", "e", "r", "e", "d">>), Lit(<<"a", "r", "c", "h", "i", "t", "e",
        "c", "t", "e", "d">>), Lit(<<"d", "e", "v", "e", "l", "o", "p", "e",
        "d">>)>>), Cat(<<WordB>>), TRUE),
    \* \b(created|engineered|established|launched|executed|streamlined|enhanced)\b
    Rx(Cat(<<WordB>>), Alt(<<Lit(<<"c", "r", "e", "a", "t", "e", "d">>), Lit(<<"e",
        "n", "g", "i", "n", "e", "e", "r", "e", "d">>), Lit(<<"e", "s", "t",
        "a", "b", "l", "i", "s", "h", "e", "d">>), Lit(<<"l", "a", "u", "n",
        "c", "h", "e", "d">>), Lit(<<"e", "x", "e", "c", "u", "t", "e", "d">>),
        Lit(<<"s", "t", "r", "e", "a", "m", "l", "i", "n", "e", "d">>), Lit(<<
        "e", "n", "h", "a", "n", "c", "e", "d">>)>>), Cat(<<WordB>>), TRUE),
    \* \b(accelerated|transformed|modernized|integrated|orchestrated|eliminated)\b
    Rx(Cat(<<WordB>>), Alt(<<Lit(<<"a", "c", "c", "e", "l", "e", "r", "a", "t",
        "e", "d">>), Lit(<<"t", "r", "a", "n", "s", "f", "o", "r", "m", "e",
        "d">>), Lit(<<"m", "o", "d", "e", "r", "n", "i", "z", "e", "d">>),
        Lit(<<"i", "n", "t", "e", "g", "r", "a", "t", "e", "d">>), Lit(<<"o",
        "r", "c", "h", "e", "s", "t", "r", "a", "t", "e", "d">>), Lit(<<"e",
        "l", "i", "m", "i", "n", "a", "t", "e", "d">>)>>), Cat(<<WordB>>),
        TRUE),
    \* \b(achieved|generated|delivered|produced|exceeded|outperformed)\b
    Rx(Cat(<<WordB>>), Alt(<<Lit(<<"a", "c", "h", "i", "e", "v", "e", "d">>),
        Lit(<<"g", "e", "n", "e", "r", "a", "t", "e", "d">>), Lit(<<"d", "e",
        "l", "i", "v", "e", "r", "e", "d">>), Lit(<<"p", "r", "o", "d", "u",
        "c", "e", "d">>), Lit(<<"e", "x", "c", "e", "e", "d", "e", "d">>),
        Lit(<<"o", "u", "t", "p", "e", "r", "f", "o", "r", "m", "e", "d">>)>>),
        Cat(<<WordB>>), TRUE) >>

\* generic_patterns of hygiene_flags, each searched with re.IGNORECASE
generic_patterns == <<
    \* \b(detail[- ]oriented|team player|fast[- ]paced environment)\b
    Rx(Cat(<<WordB>>), Alt(<<Cat(<<Lit(<<"d", "e", "t", "a", "i", "l">>), Cls({" ",
        "-"}), Lit(<<"o", "r", "i", "e", "n", "t", "e", "d">>)>>), Lit(<<"t",
        "e", "a", "m", " ", "p", "l", "a", "y", "e", "r">>), Cat(<<Lit(<<"f",
        "a", "s", "t">>), Cls({" ", "-"}), Lit(<<"p", "a", "c", "e", "d", " ",
        "e", "n", "v", "i", "r", "o", "n", "m", "e", "n", "t">>)>>)>>),
        Cat(<<WordB>>), TRUE),
    \* \b(think outside the box|hit the ground running|wear many hats)\b
    Rx(Cat(<<WordB>>), Alt(<<Lit(<<"t", "h", "i", "n", "k", " ", "o", "u", "t",
        "s", "i", "d", "e", " ", "t", "h", "e", " ", "b", "o", "x">>), Lit(<<
        "h", "i", "t", " ", "t", "h", "e", " ", "g", "r", "o", "u", "n", "d",
        " ", "r", "u", "n", "n", "i", "n", "g">>), Lit(<<"w", "e", "a", "r",
        " ", "m", "a", "n", "y", " ", "h", "a", "t", "s">>)>>), Cat(<<WordB>>),
        TRUE),
    \* \b(go[- ]getter|self[- ]starter|results[- ]driven)\b
    Rx(Cat(<<WordB>>), Alt(<<Cat(<<Lit(<<"g", "o">>), Cls({" ", "-"}), Lit(<<"g",
        "e", "t", "t", "e", "r">>)>>), Cat(<<Lit(<<"s", "e", "l", "f">>),
        Cls({" ", "-"}), Lit(<<"s", "t", "a", "r", "t", "e", "r">>)>>),
        Cat(<<Lit(<<"r", "e", "s", "u", "l", "t", "s">>), Cls({" ", "-"}),
        Lit(<<"d", "r", "i", "v", "e", "n">>)>>)>>), Cat(<<WordB>>), TRUE) >>

\* \b(was|were|is|are|been|being)\s+\w+ed\b   (re.I)
PassiveRx ==
    Rx(Cat(<<WordB>>), Alt(<<Lit(<<"w", "a", "s">>), Lit(<<"w", "e", "r", "e">>),
    Lit(<<"i", "s">>), Lit(<<"a", "r", "e">>), Lit(<<"b", "e", "e", "n">>),
    Lit(<<"b", "e", "i", "n", "g">>)>>), Cat(<<Rep(Cls(SpaceCh), 1, -1),
    Rep(Cls(WordCh), 1, -1), Lit(<<"e", "d">>), WordB>>), TRUE)
\* \bby\b   (re.I)
ByAgentRx ==
    RxAll(Cat(<<WordB, Lit(<<"b", "y">>), WordB>>), TRUE)
\* \b(I|me|my|we|our|us)\b   (re.I)
FirstPersonRx ==
    Rx(Cat(<<WordB>>), Alt(<<Lit(<<"I">>), Lit(<<"m", "e">>), Lit(<<"m", "y">>),
    Lit(<<"w", "e">>), Lit(<<"o", "u", "r">>), Lit(<<"u", "s">>)>>),
    Cat(<<WordB>>), TRUE)

\* a pattern of the list is found in the text
AnyFound(patterns, text) == \E k \in 1..Len(patterns) : Found(patterns[k], text)
\* the number of texts in which a pattern of the list is found
CountFound(patterns, texts) == Cardinality({k \in 1..Len(texts) : AnyFound(patterns, texts[k])})

\* _bullet_stats: count, the sum of the word counts (avg_len is sum / count)
\* and with_numbers
RECURSIVE WordTotal(_)
WordTotal(bullets) == IF bullets = <<>> THEN 0 ELSE WordCount(Head(bullets)) + WordTotal(Tail(bullets))
\* the statistics with the lengths in characters
CharStats(bullets) ==
    [count |-> Len(bullets),
     words |-> Len(Join(bullets, <<>>)),
     with_numbers |-> Cardinality({k \in 1..Len(bullets) : HasDigit(bullets[k])})]

bullet_stats(bullets) ==
    [count |-> Len(bullets),
     words |-> WordTotal(bullets),
     with_numbers |-> Cardinality({k \in 1..Len(bullets) : HasDigit(bullets[k])})]

\* _passive_ratio(lines) > 0.25; the ratio of no lines is 1.0
PassiveHits(bullets) == CountFound(<<PassiveRx, ByAgentRx>>, bullets)
ExcessivePassive(bullets) == bullets = <<>> \/ 4 * Min(Len(bullets), PassiveHits(bullets)) > Len(bullets)

first_person(bullets) == \E k \in 1..Len(bullets) : Found(FirstPersonRx, bullets[k])

\* A resume's contact may be None; a contact's fields may be None
NoContact == [email |-> None, phone |-> None, links |-> NoList]
contact_present(resume) ==
    \/ IsNonEmptyStr(resume.contact.email)
    \/ IsNonEmptyStr(resume.contact.phone)
    \/ OrEmptyList(resume.contact.links) # <<>>

\* _weak_phrase_ratio(lines)[0] > 0.2
WeakPhrases(bullets) == bullets # <<>> /\ 5 * CountFound(WEAK_PATTERNS, bullets) > Len(bullets)

\* _lacks_impact_verbs: fewer than 30% of the bullets have an impact verb
lacks_impact_verbs(bullets) ==
    bullets = <<>> \/ 10 * CountFound(impact_patterns, bullets) < 3 * Len(bullets)

ShortAvg == 8
LongAvg == 35
FlagIf(cond, flag) == IF cond THEN <<flag>> ELSE <<>>

FlagsOf(resume, bullets, stats) ==
       FlagIf(stats.count = 0,
              <<"n", "o", "_", "b", "u", "l", "l", "e", "t", "s", "_", "d", "e", "t", "e", "c", "t", "e", "d">>)
    \o FlagIf(stats.words < ShortAvg * stats.count \/ stats.count = 0,
              <<"b", "u", "l", "l", "e", "t", "s", "_", "t", "o", "o", "_", "s", "h", "o", "r", "t">>)
    \o FlagIf(stats.words > LongAvg * stats.count,
              <<"b", "u", "l", "l", "e", "t", "s", "_", "t", "o", "o", "_", "l", "o", "n", "g">>)
    \o FlagIf(stats.with_numbers < Max(1, stats.count \div 3),
              <<"m", "i", "s", "s", "i", "n", "g", "_", "q", "u", "a", "n", "t", "i", "f", "i", "e", "d", "_", "i", "m", "p", "a", "c", "t">>)
    \o FlagIf(ExcessivePassive(bullets),
              <<"e", "x", "c", "e", "s", "s", "i", "v", "e", "_", "p", "a", "s", "s", "i", "v", "e", "_", "v", "o", "i", "c", "e">>)
    \o FlagIf(first_person(bullets),
              <<"f", "i", "r", "s", "t", "_", "p", "e", "r", "s", "o", "n", "_", "p", "r", "o", "n", "o", "u", "n", "s">>)
    \o FlagIf(WeakPhrases(bullets),
              <<"w", "e", "a", "k", "_", "a", "c", "t", "i", "o", "n", "_", "p", "h", "r", "a", "s", "e", "s">>)
    \o FlagIf(lacks_impact_verbs(bullets),
              <<"l", "a", "c", "k", "s", "_", "s", "t", "r", "o", "n", "g", "_", "v", "e", "r", "b", "s">>)
    \o FlagIf(~contact_present(resume),
              <<"m", "i", "s", "s", "i", "n", "g", "_", "c", "o", "n", "t", "a", "c", "t", "_", "i", "n", "f", "o">>)
    \o FlagIf(\E k \in 1..Len(bullets) : AnyFound(generic_patterns, bullets[k]),
              <<"g", "e", "n", "e", "r", "i", "c", "_", "l", "a", "n", "g", "u", "a", "g", "e", "_", "d", "e", "t", "e", "c", "t", "e", "d">>)

FlagsFor(resume, bullets) == FlagsOf(resume, bullets, bullet_stats(bullets))
\* hygiene_flags(resume)[0]: the flags
hygiene_flags(resume) == FlagsFor(resume, AllBullets(resume.experience))

-----------------------------------------------------------------------------
(* analyze: analyze.py, and the /api/analyze endpoint: main.py              *)

\* A resume is a record of the ResumeSchema fields that the analysis reads:
\* skills, experience (roles), projects and contact.  The configuration is
\* config.WEIGHTS and config.ENHANCED_JD_NORMALIZATION.

\* the title and the responsibilities that are neither core nor preferred
DomainTerms(jd, jd_core, jd_resp, jd_pref) ==
    dedupe_keep_order(SelectSeq(explode_terms(<<OrEmptyStr(jd.title)>>) \o jd_resp,
                                LAMBDA t : ~InList(t, jd_core) /\ ~InList(t, jd_pref)))

\* the weighted sum without the domain bonus
WeightedOnly(w, core, pref, domain, verbs, hyg, recency, bonus) ==
    w.core * core + w.preferred * pref + w.domain * domain + w.verbs * verbs
        + w.hygiene * hyg + w.recency * recency

\* the weighted sum and the domain bonus, in millionths
Total(w, core, pref, domain, verbs, hyg, recency, bonus) ==
    w.core * core + w.preferred * pref + w.domain * domain + w.verbs * verbs
        + w.hygiene * hyg + w.recency * recency + bonus * Million

\* the score as it is, not clamped
NoClamp(x) == x

\* max(0, min(100, x))
Clamp(x) == Max(0, Min(100, x))

Sections(core_p, jd_core, pref_p, jd_pref, domain_p, domain_terms, recency, hyg) ==
    [skillsCoveragePct |-> Pct(Len(core_p), Len(jd_core)),
     preferredCoveragePct |-> Pct(Len(pref_p), Len(jd_pref)),
     domainCoveragePct |-> Pct(Len(domain_p), Len(domain_terms)),
     recencyScorePct |-> RoundHalfEven(recency, Million \div 100),
     hygieneScorePct |-> RoundHalfEven(hyg, Million \div 100)]

\* x or None, where the code has x or []
or_none(x) == IF x = <<>> THEN NoList ELSE x

\* x or []
or_empty(x) == x

\* the result of analyze, and its local score before it is rounded and
\* clamped (in millionths)
AnalyzeResult(resume, jd_core, jd_resp, core_p, total, sections) ==
    [result |->
        [score |-> Clamp(RoundHalfEven(total, Million)),
         matched |-> or_empty(dedupe_keep_order(core_p)),
         missing |-> or_empty(dedupe_keep_order(MissingFrom(jd_core, core_p))),
         sections |-> sections,
         normalizedJD |-> [skills |-> or_empty(jd_core), responsibilities |-> or_empty(jd_resp)],
         hygiene_flags |-> or_empty(hygiene_flags(resume))],
     raw |-> total]

AnalyzeScores(resume, jd, w, jd_core, jd_resp, jd_pref, domain_terms, core_p, pref_p, domain_p, verbs, hyg, recency) ==
    AnalyzeResult(resume, jd_core, jd_resp, core_p,
        Total(w, Ratio(Len(core_p), Len(jd_core)), Ratio(Len(pref_p), Len(jd_pref)),
              Ratio(Len(domain_p), Len(domain_terms)), verbs, hyg, recency,
              compute_domain_bonus(resume, jd)),
        Sections(core_p, jd_core, pref_p, jd_pref, domain_p, domain_terms, recency, hyg))

AnalyzeCover(resume, jd, w, jd_core, jd_resp, jd_pref, domain_terms, haystack, bullets_norm, today) ==
    AnalyzeScores(resume, jd, w, jd_core, jd_resp, jd_pref, domain_terms,
        PresentIn(jd_core, haystack, FUZZY_THRESHOLD),
        PresentIn(jd_pref, haystack, FUZZY_THRESHOLD),
        PresentIn(domain_terms, haystack, FUZZY_THRESHOLD),
        verb_alignment(jd_resp, bullets_norm),
        hygiene(resume),
        enhanced_recency_score(resume, jd_core, today))

AnalyzeTerms(resume, jd, w, jd_core, jd_resp, jd_pref, bullets_norm, today) ==
    AnalyzeCover(resume, jd, w, jd_core, jd_resp, jd_pref,
        DomainTerms(jd, jd_core, jd_resp, jd_pref),
        dedupe_keep_order(canonicalize_terms(resume.skills) \o bullets_norm),
        bullets_norm, today)

AnalyzeJD(resume, jd, w, normalizedJD, today) ==
    AnalyzeTerms(resume, jd, w, normalizedJD.skills, normalizedJD.responsibilities,
        canonicalize_terms(explode_terms(strip_list_artifacts(OrEmptyList(jd.preferred)))),
        NormalizeAll(AllBullets(resume.experience)), today)

\* analyze(resume, jd) under the configuration cfg on the day today, with
\* the skills extracted from the text of the JD in the order given
AnalyzeLocals(resume, jd, extracted, cfg, today) ==
    AnalyzeJD(resume, jd, cfg.weights,
        IF cfg.enhanced THEN enhanced_jd_normalization(jd, extracted) ELSE normalize_jd(jd),
        today)
analyze(resume, jd, extracted, cfg, today) == AnalyzeLocals(resume, jd, extracted, cfg, today).result

\* the skills that analyze has extracted from the text of the JD: a set
ExtractedFor(jd, cfg) == IF cfg.enhanced THEN extract_skills_from_text(AllTextSources(jd)) ELSE {}

\* An optional percentage of AnalyzeSections that is None
NoPct == -1
EmptySections ==
    [skillsCoveragePct |-> 0, preferredCoveragePct |-> 0, domainCoveragePct |-> 0,
     recencyScorePct |-> NoPct, hygieneScorePct |-> NoPct]

\* the response of the two short-circuits of analyze_endpoint
ShortCircuit(missing) ==
    [score |-> 0, matched |-> <<>>, missing |-> missing, sections |-> EmptySections,
     normalizedJD |-> [skills |-> <<>>, responsibilities |-> <<>>], hygiene_flags |-> <<>>]

\* a test for empty lists that takes projects = None for content
EmptyListsOnly(resume) ==
    resume.skills = <<>> /\ resume.experience = <<>> /\ resume.projects = <<>>

\* not any([skills, experience, projects])
EmptyResume(resume) ==
    resume.skills = <<>> /\ resume.experience = <<>> /\ OrNoProjects(resume.projects) = <<>>

\* a test that takes the title and the company for requirements too
has_content(jd) ==
    \/ jd.skills # <<>> \/ jd.required # <<>> \/ jd.responsibilities # <<>>
    \/ OrEmptyStr(jd.title) # <<>> \/ OrEmptyStr(jd.company) # <<>>

\* any([skills, required, responsibilities])
has_requirements(jd) == jd.skills # <<>> \/ jd.required # <<>> \/ jd.responsibilities # <<>>
\* any([title, company])
has_metadata(jd) == OrEmptyStr(jd.title) # <<>> \/ OrEmptyStr(jd.company) # <<>>
\* any(jd_dict.values())
AnyValue(jd) == has_requirements(jd) \/ has_metadata(jd) \/ OrEmptyList(jd.preferred) # <<>>

NoJdMessage == <<"N", "o", " ", "j", "o", "b", " ", "d", "e", "s", "c", "r", "i", "p", "t", "i", "o", "n", " ", "p", "r", "o", "v", "i", "d", "e", "d">>
MetadataOnlyMessage ==
    <<"U", "n", "a", "b", "l", "e", " ", "t", "o", " ", "e", "x", "t", "r", "a",
    "c", "t", " ", "r", "e", "q", "u", "i", "r", "e", "m", "e", "n", "t", "s",
    " ", "f", "r", "o", "m", " ", "j", "o", "b", " ", "d", "e", "s", "c", "r",
    "i", "p", "t", "i", "o", "n", " ", "-", " ", "o", "n", "l", "y", " ", "m",
    "e", "t", "a", "d", "a", "t", "a", " ", "p", "r", "o", "v", "i", "d", "e",
    "d">>
NoRequirementsMessage ==
    <<"U", "n", "a", "b", "l", "e", " ", "t", "o", " ", "e", "x", "t", "r", "a",
    "c", "t", " ", "r", "e", "q", "u", "i", "r", "e", "m", "e", "n", "t", "s",
    " ", "f", "r", "o", "m", " ", "j", "o", "b", " ", "d", "e", "s", "c", "r",
    "i", "p", "t", "i", "o", "n">>

\* no message at all
no_msg(jd) == <<>>

\* missing_msg of analyze_endpoint
missing_msg(jd) ==
    IF ~AnyValue(jd) THEN <<NoJdMessage>>
    ELSE IF has_metadata(jd) THEN <<MetadataOnlyMessage>>
    ELSE <<NoRequirementsMessage>>

\* the final validation of analyze_endpoint
Validated(result) ==
    [result EXCEPT !.score = Clamp(@), !.matched = or_empty(@), !.missing = or_empty(@)]

-----------------------------------------------------------------------------
(* Sections: utils.py, SECTION_ALIASES, guess_section_name, split_sections *)

\* the dict in its insertion order
SECTION_ALIASES == <<
    [name |-> <<"s", "u", "m", "m", "a", "r", "y">>,
     aliases |-> <<<<"s", "u", "m", "m", "a", "r", "y">>, <<"p", "r", "o", "f", "i", "l", "e">>, <<"a", "b", "o", "u", "t">>, <<"o", "b", "j", "e", "c", "t", "i", "v", "e">>>>],
    [name |-> <<"s", "k", "i", "l", "l", "s">>,
     aliases |-> <<<<"s", "k", "i", "l", "l", "s">>, <<"t", "e", "c", "h", "n", "o", "l", "o", "g", "i", "e", "s">>, <<"t", "e", "c", "h", " ", "s", "k", "i", "l", "l", "s">>, <<"t", "e", "c", "h", "n", "i", "c", "a", "l", " ", "s", "k", "i", "l", "l", "s">>, <<"t", "o", "o", "l", "i", "n", "g">>>>],
    [name |-> <<"e", "x", "p", "e", "r", "i", "e", "n", "c", "e">>,
     aliases |-> <<<<"e", "x", "p", "e", "r", "i", "e", "n", "c", "e">>, <<"w", "o", "r", "k", " ", "e", "x", "p", "e", "r", "i", "e", "n", "c", "e">>, <<"p", "r", "o", "f", "e", "s", "s", "i", "o", "n", "a", "l", " ", "e", "x", "p", "e", "r", "i", "e", "n", "c", "e">>, <<"e", "m", "p", "l", "o", "y", "m", "e", "n", "t">>>>],
    [name |-> <<"p", "r", "o", "j", "e", "c", "t", "s">>,
     aliases |-> <<<<"p", "r", "o", "j", "e", "c", "t", "s">>, <<"p", "e", "r", "s", "o", "n", "a", "l", " ", "p", "r", "o", "j", "e", "c", "t", "s">>, <<"s", "e", "l", "e", "c", "t", "e", "d", " ", "p", "r", "o", "j", "e", "c", "t", "s">>, <<"i", "n", "d", "e", "p", "e", "n", "d", "e", "n", "t", " ", "p", "r", "o", "j", "e", "c", "t", "s">>>>],
    [name |-> <<"e", "d", "u", "c", "a", "t", "i", "o", "n">>,
     aliases |-> <<<<"e", "d", "u", "c", "a", "t", "i", "o", "n">>, <<"a", "c", "a", "d", "e", "m", "i", "c", "s">>>>],
    [name |-> <<"c", "e", "r", "t", "i", "f", "i", "c", "a", "t", "i", "o", "n", "s">>,
     aliases |-> <<<<"c", "e", "r", "t", "i", "f", "i", "c", "a", "t", "i", "o", "n", "s">>, <<"c", "e", "r", "t", "s">>>>],
    [name |-> <<"a", "w", "a", "r", "d", "s">>,
     aliases |-> <<<<"a", "w", "a", "r", "d", "s">>, <<"h", "o", "n", "o", "r", "s">>, <<"a", "c", "h", "i", "e", "v", "e", "m", "e", "n", "t", "s">>>>],
    [name |-> <<"p", "u", "b", "l", "i", "c", "a", "t", "i", "o", "n", "s">>,
     aliases |-> <<<<"p", "u", "b", "l", "i", "c", "a", "t", "i", "o", "n", "s">>, <<"p", "a", "p", "e", "r", "s">>, <<"a", "r", "t", "i", "c", "l", "e", "s">>>>],
    [name |-> <<"c", "o", "u", "r", "s", "e", "s">>,
     aliases |-> <<<<"c", "o", "u", "r", "s", "e", "s">>, <<"r", "e", "l", "e", "v", "a", "n", "t", " ", "c", "o", "u", "r", "s", "e", "w", "o", "r", "k">>>>],
    [name |-> <<"v", "o", "l", "u", "n", "t", "e", "e", "r", "i", "n", "g">>,
     aliases |-> <<<<"v", "o", "l", "u", "n", "t", "e", "e", "r", "i", "n", "g">>, <<"v", "o", "l", "u", "n", "t", "e", "e", "r", " ", "e", "x", "p", "e", "r", "i", "e", "n", "c", "e">>, <<"c", "o", "m", "m", "u", "n", "i", "t", "y">>>>],
    [name |-> <<"l", "e", "a", "d", "e", "r", "s", "h", "i", "p">>,
     aliases |-> <<<<"l", "e", "a", "d", "e", "r", "s", "h", "i", "p">>, <<"a", "c", "t", "i", "v", "i", "t", "i", "e", "s">>, <<"e", "x", "t", "r", "a", "c", "u", "r", "r", "i", "c", "u", "l", "a", "r">>, <<"a", "f", "f", "i", "l", "i", "a", "t", "i", "o", "n", "s">>>>],
    [name |-> <<"l", "i", "n", "k", "s">>,
     aliases |-> <<<<"l", "i", "n", "k", "s">>, <<"p", "r", "o", "f", "i", "l", "e", "s">>>>],
    [name |-> <<"r", "e", "s", "p", "o", "n", "s", "i", "b", "i", "l", "i", "t", "i", "e", "s">>,
     aliases |-> <<<<"r", "e", "s", "p", "o", "n", "s", "i", "b", "i", "l", "i", "t", "i", "e", "s">>, <<"w", "h", "a", "t", " ", "y", "o", "u", "'", "l", "l", " ", "d", "o">>, <<"w", "h", "a", "t", " ", "y", "o", "u", " ", "w", "i", "l", "l", " ", "d", "o">>>>],
    [name |-> <<"r", "e", "q", "u", "i", "r", "e", "m", "e", "n", "t", "s">>,
     aliases |-> <<<<"r", "e", "q", "u", "i", "r", "e", "m", "e", "n", "t", "s">>, <<"q", "u", "a", "l", "i", "f", "i", "c", "a", "t", "i", "o", "n", "s">>, <<"w", "h", "a", "t", " ", "y", "o", "u", "'", "l", "l", " ", "n", "e", "e", "d">>, <<"y", "o", "u", "rsquo", "l", "l", " ", "n", "e", "e", "d">>>>],
    [name |-> <<"p", "r", "e", "f", "e", "r", "r", "e", "d">>,
     aliases |-> <<<<"p", "r", "e", "f", "e", "r", "r", "e", "d">>, <<"n", "i", "c", "e", " ", "t", "o", " ", "h", "a", "v", "e">>, <<"b", "o", "n", "u", "s">>, <<"g", "o", "o", "d", " ", "t", "o", " ", "h", "a", "v", "e">>>>]>>

HeaderLenLimit == 80
CapsLenLimit == 40

\* str.isupper(): some cased character, and no lower-case one
IsUpper(s) == (\E k \in 1..Len(s) : s[k] \in UpperCh) /\ (\A k \in 1..Len(s) : s[k] \notin LowerCh)

EndsWithColon(s) == s # <<>> /\ s[Len(s)] = ":"

KnownSections == {SECTION_ALIASES[k].name : k \in 1..Len(SECTION_ALIASES)}

\* is_header of split_sections
is_header(h) ==
    LET hs == Strip(h)
    IN  /\ hs # <<>>
        /\ \/ EndsWithColon(hs) /\ Len(hs) < HeaderLenLimit
           \/ Lower(hs) \in KnownSections
           \/ Len(hs) <= CapsLenLimit /\ IsUpper(hs)

ExactSection(key, e) == key = e.name \/ InList(key, e.aliases)
LooseSection(key, e) == Contains(key, e.name) \/ \E a \in 1..Len(e.aliases) : Contains(key, e.aliases[a])

\* the first entry of SECTION_ALIASES that matches, exactly or else loosely
GuessFrom(raw, exact, loose) ==
    IF exact # <<>> THEN Head(exact).name
    ELSE IF loose # <<>> THEN Head(loose).name
    ELSE Lower(StripSet(raw, {":"}))
GuessKey(raw, key) ==
    GuessFrom(raw, SelectSeq(SECTION_ALIASES, LAMBDA e : ExactSection(key, e)),
                   SelectSeq(SECTION_ALIASES, LAMBDA e : LooseSection(key, e)))
guess_section_name(raw) == GuessKey(raw, StripSet(Lower(Strip(raw)), {":"}))

Unknown == <<"u", "n", "k", "n", "o", "w", "n">>

\* the dict sections as the sequence of its items, in insertion order
HasSection(secs, name) == \E k \in 1..Len(secs) : secs[k].name = name
\* sections.setdefault(name, [])
setdefault(secs, name) ==
    IF HasSection(secs, name) THEN secs ELSE Append(secs, [name |-> name, body |-> <<>>])
AppendBody(secs, name, ln) ==
    [k \in 1..Len(secs) |-> IF secs[k].name = name THEN [secs[k] EXCEPT !.body = Append(@, ln)] ELSE secs[k]]

DropLine(secs, name, ln) == setdefault(secs, name)

\* sections.setdefault(name, []).append(ln)
AppendTo(secs, name, ln) == AppendBody(setdefault(secs, name), name, ln)

\* the name given to the section a header line h (stripped) opens
SectionOf(h) == guess_section_name(StripSet(h, {":"}))

-----------------------------------------------------------------------------
(* Text and skill lines: utils.py, normalize_text, _canon_skill and        *)
(* normalize_skill_lines                                                   *)

\* re.sub(r"[ \t]+", " ", s): of every run of blanks the first is kept, as
\* a space
BlankKept(s) == SelectSeq([k \in 1..Len(s) |-> k], LAMBDA k : ~(s[k] \in BlankCh /\ k > 1 /\ s[k - 1] \in BlankCh))
OneBlank(s) == [j \in 1..Len(BlankKept(s)) |-> IF s[BlankKept(s)[j]] \in BlankCh THEN " " ELSE s[BlankKept(s)[j]]]
\* re.sub(r"\n{3,}", "\n\n", s): of every run of newlines the first two are
\* kept
NewlineKept(s) == SelectSeq([k \in 1..Len(s) |-> k], LAMBDA k : ~(s[k] = "nl" /\ k > 2 /\ s[k - 1] = "nl" /\ s[k - 2] = "nl"))
TwoNewlines(s) == [j \in 1..Len(NewlineKept(s)) |-> s[NewlineKept(s)[j]]]

\* s.replace("\r\n", "\n").replace("\r", "\n"): a carriage return before a
\* newline goes, every other one becomes a newline
KeptAt(s) == SelectSeq([k \in 1..Len(s) |-> k], LAMBDA k : ~(s[k] = "cr" /\ k < Len(s) /\ s[k + 1] = "nl"))
UnixNewlines(s) == [j \in 1..Len(KeptAt(s)) |-> IF s[KeptAt(s)[j]] = "cr" THEN "nl" ELSE s[KeptAt(s)[j]]]

\* normalize_text; U+2022 is already the bullet character
normalize_text(s) ==
    Strip(TwoNewlines(OneBlank(UnixNewlines(s))))

\* [l.rstrip() for l in txt.split("\n")]
RStripAll(xs) == [k \in 1..Len(xs) |-> RStrip(xs[k])]
TextLines(txt) == RStripAll(SplitOn(txt, {"nl"}))

\* _SKILL_ALIASES, as the list of its items
SKILL_ALIASES == <<
    [key |-> <<"j", "s">>, value |-> <<"J", "a", "v", "a", "S", "c", "r", "i", "p", "t">>],
    [key |-> <<"j", "a", "v", "a", "s", "c", "r", "i", "p", "t">>, value |-> <<"J", "a", "v", "a", "S", "c", "r", "i", "p", "t">>],
    [key |-> <<"n", "o", "d", "e">>, value |-> <<"N", "o", "d", "e", ".", "j", "s">>],
    [key |-> <<"n", "o", "d", "e", "j", "s">>, value |-> <<"N", "o", "d", "e", ".", "j", "s">>],
    [key |-> <<"n", "o", "d", "e", ".", "j", "s">>, value |-> <<"N", "o", "d", "e", ".", "j", "s">>],
    [key |-> <<"t", "s">>, value |-> <<"T", "y", "p", "e", "S", "c", "r", "i", "p", "t">>],
    [key |-> <<"t", "y", "p", "e", "s", "c", "r", "i", "p", "t">>, value |-> <<"T", "y", "p", "e", "S", "c", "r", "i", "p", "t">>],
    [key |-> <<"r", "e", "a", "c", "t", "j", "s">>, value |-> <<"R", "e", "a", "c", "t">>],
    [key |-> <<"r", "e", "a", "c", "t", ".", "j", "s">>, value |-> <<"R", "e", "a", "c", "t">>],
    [key |-> <<"n", "e", "x", "t", "j", "s">>, value |-> <<"N", "e", "x", "t", ".", "j", "s">>],
    [key |-> <<"n", "e", "x", "t", ".", "j", "s">>, value |-> <<"N", "e", "x", "t", ".", "j", "s">>],
    [key |-> <<"p", "o", "s", "t", "g", "r", "e", "s">>, value |-> <<"P", "o", "s", "t", "g", "r", "e", "S", "Q", "L">>],
    [key |-> <<"p", "o", "s", "t", "g", "r", "e", "s", "q", "l">>, value |-> <<"P", "o", "s", "t", "g", "r", "e", "S", "Q", "L">>],
    [key |-> <<"a", "w", "s">>, value |-> <<"A", "W", "S">>],
    [key |-> <<"a", "m", "a", "z", "o", "n", " ", "w", "e", "b", " ", "s", "e", "r", "v", "i", "c", "e", "s">>, value |-> <<"A", "W", "S">>],
    [key |-> <<"g", "c", "p">>, value |-> <<"G", "C", "P">>],
    [key |-> <<"g", "o", "o", "g", "l", "e", " ", "c", "l", "o", "u", "d">>, value |-> <<"G", "C", "P">>],
    [key |-> <<"m", "s", " ", "s", "q", "l">>, value |-> <<"S", "Q", "L", " ", "S", "e", "r", "v", "e", "r">>],
    [key |-> <<"m", "s", "s", "q", "l">>, value |-> <<"S", "Q", "L", " ", "S", "e", "r", "v", "e", "r">>],
    [key |-> <<"p", "y">>, value |-> <<"P", "y", "t", "h", "o", "n">>],
    [key |-> <<"f", "a", "s", "t", " ", "a", "p", "i">>, value |-> <<"F", "a", "s", "t", "A", "P", "I">>],
    [key |-> <<"f", "a", "s", "t", "a", "p", "i">>, value |-> <<"F", "a", "s", "t", "A", "P", "I">>]>>

\* keep of _canon_skill
KeepCasing == {<<"N", "o", "d", "e", ".", "j", "s">>, <<"N", "e", "x", "t", ".", "j", "s">>, <<"R", "e", "a", "c", "t">>, <<"T", "y", "p", "e", "S", "c", "r", "i", "p", "t">>, <<"J", "a", "v", "a", "S", "c", "r", "i", "p", "t">>, <<"P", "o", "s", "t", "g", "r", "e", "S", "Q", "L">>, <<"A", "W", "S">>, <<"G", "C", "P">>, <<"F", "a", "s", "t", "A", "P", "I">>, <<"S", "Q", "L">>, <<"P", "y", "t", "h", "o", "n">>, <<"J", "a", "v", "a">>}

\* _LEADING_BULLET, on the characters of the model
\* ^\s*([-••‣\*\+→⇒►▪▫◦‣⁃]|\d+[\.\)]|[a-zA-Z][\.\)]|[IVXivx]+[\.\)])\s+
LEADING_BULLET ==
    Rx(Cat(<<Bol, Rep(Cls(SpaceCh), 0, -1)>>), Alt(<<Cls({"*", "+", "-", "bullet"
    }), Cat(<<Rep(Cls(DigitCh), 1, -1), Cls({")", "."})>>),
    Cat(<<Cls(UpperCh \cup LowerCh), Cls({")", "."})>>), Cat(<<Rep(Cls({"I",
    "V", "X", "i", "v", "x"}), 1, -1), Cls({")", "."})>>)>>),
    Cat(<<Rep(Cls(SpaceCh), 1, -1)>>), FALSE)

\* str.capitalize()
Capitalize(w) ==
    [k \in 1..Len(w) |-> IF k = 1 THEN (IF w[k] \in LowerCh THEN UpperOf[w[k]] ELSE w[k]) ELSE LowerChar(w[k])]
CapitalizeAll(ws) == [k \in 1..Len(ws) |-> Capitalize(ws[k])]

AliasRows(low) == SelectSeq(SKILL_ALIASES, LAMBDA e : e.key = low)

\* _canon_skill from t on: t is the text without its bullet, whitespace collapsed
CanonFrom(t, low) ==
    IF AliasRows(low) # <<>> THEN AliasRows(low)[1].value
    ELSE IF \E k \in KeepCasing : Lower(k) = low THEN CHOOSE k \in KeepCasing : Lower(k) = low
    ELSE Join(CapitalizeAll(SplitWs(t)), <<" ">>)
CanonText(t) == CanonFrom(t, Lower(t))
canon_skill(s) == CanonText(CollapseSpaces(Sub(LEADING_BULLET, Strip(s), <<>>)))

\* section_headers of normalize_skill_lines
section_headers == {
    <<"p", "r", "o", "g", "r", "a", "m", "m", "i", "n", "g", " ", "l", "a", "n", "g", "u", "a", "g", "e", "s">>,
    <<"f", "r", "a", "m", "e", "w", "o", "r", "k", "s">>,
    <<"l", "i", "b", "r", "a", "r", "i", "e", "s">>,
    <<"t", "o", "o", "l", "s">>,
    <<"t", "e", "c", "h", "n", "o", "l", "o", "g", "i", "e", "s">>,
    <<"d", "a", "t", "a", "b", "a", "s", "e", "s">>,
    <<"c", "l", "o", "u", "d">>,
    <<"d", "e", "v", "o", "p", "s">>,
    <<"m", "e", "t", "h", "o", "d", "o", "l", "o", "g", "i", "e", "s">>,
    <<"o", "t", "h", "e", "r">>,
    <<"a", "d", "d", "i", "t", "i", "o", "n", "a", "l">>}

HeaderWithin(p_clean) == \E h \in section_headers : Contains(p_clean, h)
HasColon(p) == \E k \in 1..Len(p) : p[k] = ":"
\* p.split(':', 1)[-1].strip(), for a part that holds a colon
AfterColon(p) == Strip(From(p, (CHOOSE k \in 1..Len(p) : p[k] = ":" /\ \A j \in 1..(k - 1) : p[j] # ":") + 1))
EndsWithS(s) == s # <<>> /\ s[Len(s)] = "s"

\* what one part adds to out: the canonical skill, or "" where the part is
\* skipped (an empty result of _canon_skill is skipped as well)
SkillOfClean(p, p_clean, after) ==
    IF HeaderWithin(p_clean) /\ after # <<>> /\ Lower(after) \notin section_headers
    THEN canon_skill(after)
    ELSE IF \/ p_clean \in section_headers
            \/ HeaderWithin(p_clean)
            \/ (Len(SplitWs(p)) <= 2 /\ EndsWithS(p_clean))
    THEN <<>>
    ELSE canon_skill(p)
SkillOfPart(p) ==
    IF p = <<>> THEN <<>>
    ELSE SkillOfClean(p, Lower(RStripSet(Strip(p), {":"})), IF HasColon(p) THEN AfterColon(p) ELSE <<>>)

\* the parts of one line: split at ; , / and the middle dot
SkillParts(ln) ==
    IF RStripSet(Lower(Strip(ln)), {":"}) \in section_headers THEN <<>>
    ELSE PartsOrLine(ln, SelectSeq(StripAll(SplitOn(ln, {";", ",", "/", "middot"})), NonEmptyStr))

RECURSIVE AllSkillParts(_)
AllSkillParts(ls) == IF ls = <<>> THEN <<>> ELSE SkillParts(Head(ls)) \o AllSkillParts(Tail(ls))

SkillsOfParts(ps) == [k \in 1..Len(ps) |-> SkillOfPart(ps[k])]

\* normalize_skill_lines: if c and c not in out: out.append(c)
normalize_skill_lines(ls) == dedupe_keep_order(SelectSeq(SkillsOfParts(AllSkillParts(ls)), NonEmptyStr))

-----------------------------------------------------------------------------
(* Job-description text: parse.py, parse_jd_text, and analyze.py,          *)
(* _normalize_jd_for_scoring                                               *)

\* split_sections as a function of its lines: the loop from line k on
RECURSIVE SplitLoop(_, _, _, _)
SplitLoop(ls, k, cur, secs) ==
    IF k > Len(ls) THEN secs
    ELSE IF is_header(Strip(ls[k]))
         THEN SplitLoop(ls, k + 1, SectionOf(Strip(ls[k])), setdefault(secs, SectionOf(Strip(ls[k]))))
         ELSE SplitLoop(ls, k + 1, cur, AppendTo(secs, cur, ls[k]))
split_sections(ls) == SplitLoop(ls, 1, Unknown, <<>>)

\* sections.get(name, [])
SectionGet(secs, name) ==
    IF HasSection(secs, name) THEN secs[CHOOSE k \in 1..Len(secs) : secs[k].name = name].body ELSE <<>>

\* tech_patterns, each used with re.IGNORECASE
\* \b(Python|JavaScript|TypeScript|Java|C\+\+|SQL|React|Node\.js|Flask|FastAPI|Docker|Kubernetes|AWS|Azure|GCP)\b
TechPatternA ==
    Rx(Cat(<<WordB>>), Alt(<<Lit(<<"P", "y", "t", "h", "o", "n">>), Lit(<<"J", "a",
    "v", "a", "S", "c", "r", "i", "p", "t">>), Lit(<<"T", "y", "p", "e", "S",
    "c", "r", "i", "p", "t">>), Lit(<<"J", "a", "v", "a">>), Lit(<<"C", "+",
    "+">>), Lit(<<"S", "Q", "L">>), Lit(<<"R", "e", "a", "c", "t">>), Lit(<<
    "N", "o", "d", "e", ".", "j", "s">>), Lit(<<"F", "l", "a", "s", "k">>),
    Lit(<<"F", "a", "s", "t", "A", "P", "I">>), Lit(<<"D", "o", "c", "k", "e",
    "r">>), Lit(<<"K", "u", "b", "e", "r", "n", "e", "t", "e", "s">>), Lit(<<
    "A", "W", "S">>), Lit(<<"A", "z", "u", "r", "e">>), Lit(<<"G", "C", "P"
    >>)>>), Cat(<<WordB>>), TRUE)
\* \b(Git|Jenkins|MongoDB|PostgreSQL|Linux|HTML|CSS|Angular|Vue\.js|Spring|Django|TensorFlow|PyTorch)\b
TechPatternB ==
    Rx(Cat(<<WordB>>), Alt(<<Lit(<<"G", "i", "t">>), Lit(<<"J", "e", "n", "k", "i",
    "n", "s">>), Lit(<<"M", "o", "n", "g", "o", "D", "B">>), Lit(<<"P", "o",
    "s", "t", "g", "r", "e", "S", "Q", "L">>), Lit(<<"L", "i", "n", "u", "x"
    >>), Lit(<<"H", "T", "M", "L">>), Lit(<<"C", "S", "S">>), Lit(<<"A", "n",
    "g", "u", "l", "a", "r">>), Lit(<<"V", "u", "e", ".", "j", "s">>), Lit(<<
    "S", "p", "r", "i", "n", "g">>), Lit(<<"D", "j", "a", "n", "g", "o">>),
    Lit(<<"T", "e", "n", "s", "o", "r", "F", "l", "o", "w">>), Lit(<<"P", "y",
    "T", "o", "r", "c", "h">>)>>), Cat(<<WordB>>), TRUE)

DefaultTitle == <<"J", "o", "b", " ", "T", "i", "t", "l", "e">>
\* next((l.strip() for l in lines if l.strip()), "Job Title")
TitleOf(ls) ==
    IF \E k \in 1..Len(ls) : Strip(ls[k]) # <<>>
    THEN Strip(ls[CHOOSE k \in 1..Len(ls) : Strip(ls[k]) # <<>> /\ \A j \in 1..(k - 1) : Strip(ls[j]) = <<>>])
    ELSE DefaultTitle

\* re.findall(pattern, full_text, re.IGNORECASE), lower-cased
TechFound(rx, full_text) == {Lower(t) : t \in Range(GroupTexts(full_text, FindIter(rx, full_text, 1)))}
\* extracted_skills; empty when one of the three raw lists is not
ExtractedTech(ls, req_raw, skills_raw, pref_raw) ==
    IF req_raw = <<>> /\ skills_raw = <<>> /\ pref_raw = <<>>
    THEN TechFound(TechPatternA, Join(ls, <<" ">>)) \cup TechFound(TechPatternB, Join(ls, <<" ">>))
    ELSE {}

\* lines 359-362: the qualifications section stands in for a missing
\* requirements section
ReqRaw(secs) ==
    IF SectionGet(secs, <<"q", "u", "a", "l", "i", "f", "i", "c", "a", "t", "i", "o", "n", "s">>) # <<>> /\ SectionGet(secs, <<"r", "e", "q", "u", "i", "r", "e", "m", "e", "n", "t", "s">>) = <<>>
    THEN SectionGet(secs, <<"q", "u", "a", "l", "i", "f", "i", "c", "a", "t", "i", "o", "n", "s">>)
    ELSE SectionGet(secs, <<"r", "e", "q", "u", "i", "r", "e", "m", "e", "n", "t", "s">>)
JdExtracted(secs, ls) == ExtractedTech(ls, ReqRaw(secs), SectionGet(secs, <<"s", "k", "i", "l", "l", "s">>), SectionGet(secs, <<"p", "r", "e", "f", "e", "r", "r", "e", "d">>))
\* the set extracted_skills of parse_jd_text(content)
JdTechOf(content) ==
    JdExtracted(split_sections(TextLines(normalize_text(content))), TextLines(normalize_text(content)))

KeepAll(required, skills) == required

\* for s in skills: if s not in required: required.append(s)
MergeInto(required, skills) == DedupeInto(skills, required)

OrNone(xs) == IF xs = <<>> THEN None ELSE xs

JdDict(ls, resp, required, preferred, skills) ==
    [title |-> TitleOf(ls),
     company |-> None,
     responsibilities |-> resp,
     required |-> MergeInto(required, skills),
     preferred |-> or_none(preferred),
     skills |-> skills]
JdOfSections(ls, secs, order) ==
    JdDict(ls,
           collect_bullets(SectionGet(secs, <<"r", "e", "s", "p", "o", "n", "s", "i", "b", "i", "l", "i", "t", "i", "e", "s">>)) \o collect_bullets(SectionGet(secs, <<"k", "e", "y", " ", "r", "e", "s", "p", "o", "n", "s", "i", "b", "i", "l", "i", "t", "i", "e", "s">>)),
           normalize_skill_lines(ReqRaw(secs) \o order),
           normalize_skill_lines(SectionGet(secs, <<"p", "r", "e", "f", "e", "r", "r", "e", "d">>)),
           normalize_skill_lines(SectionGet(secs, <<"s", "k", "i", "l", "l", "s">>)))
JdOfLines(ls, order) == JdOfSections(ls, split_sections(ls), order)
\* parse_jd_text; order is list(extracted_skills)
parse_jd_text(content, order) == JdOfLines(TextLines(normalize_text(content)), order)

\* _normalize_jd_for_scoring raises TypeError when one of the three lists
\* is None: normalize_skill_lines iterates over it
ScoringRaises(jd) == jd.required = NoList \/ jd.preferred = NoList \/ jd.skills = NoList
normalize_jd_for_scoring(jd) ==
    [jd EXCEPT !.required = dedupe_keep_order(MergeInto(normalize_skill_lines(jd.required),
                                                        normalize_skill_lines(jd.skills))),
               !.preferred = dedupe_keep_order(normalize_skill_lines(jd.preferred)),
               !.skills = dedupe_keep_order(normalize_skill_lines(jd.skills))]

-----------------------------------------------------------------------------
(* Resume text: parse.py, _split_experience_roles as a function,           *)
(* _project_blocks and parse_resume_text                                   *)

\* _split_experience_roles from line i (0-based) on, as SpecRoles steps it
RECURSIVE SplitRolesLoop(_, _, _, _)
RolesAfter(ls, st, rs) == SplitRolesLoop(ls, st.idx, st.current, rs)
SplitRolesLoop(ls, i, cur, rs) ==
    IF ~(i < Len(ls)) THEN SelectSeq(flush(rs, cur), HasBullets)
    ELSE IF likely_role_header(RStrip(ls[i + 1]))
         THEN RolesAfter(ls, HeaderStep(ls, i), flush(rs, cur))
    ELSE IF is_bullet(RStrip(ls[i + 1])) \/ Strip(ls[i + 1]) # <<>>
         THEN RolesAfter(ls, BlockTaken(ls, i, BlockEnd(ls, i + 1),
                                        IF cur = <<>> THEN Placeholder ELSE cur[1]), rs)
    ELSE SplitRolesLoop(ls, i + 1, cur, rs)
split_experience_roles(ls) == SplitRolesLoop(preprocess_experience_lines(ls), 0, <<>>, <<>>)

ProjectNameMax == 100
ContinuationLen == 80
ShortNameLen == 50

tech_words == {
    <<"a", "c", "h", "i", "e", "v", "i", "n", "g">>,
    <<"o", "p", "t", "i", "m", "i", "z", "e", "d">>,
    <<"h", "y", "p", "e", "r", "p", "a", "r", "a", "m", "e", "t", "e", "r">>,
    <<"e", "f", "f", "i", "c", "i", "e", "n", "c", "y">>,
    <<"r", "e", "s", "p", "o", "n", "s", "e", " ", "t", "i", "m", "e", "s">>,
    <<"c", "o", "n", "c", "u", "r", "r", "e", "n", "t", " ", "u", "s", "e", "r", "s">>,
    <<"t", "e", "c", "h", "n", "i", "c", "a", "l", " ", "i", "n", "d", "i", "c", "a", "t", "o", "r", "s">>,
    <<"p", "r", "o", "c", "e", "s", "s", "i", "n", "g">>,
    <<"d", "a", "i", "l", "y", " ", "m", "a", "r", "k", "e", "t">>}
ContinuationWords == {<<"u", "s", "i", "n", "g">>, <<"w", "i", "t", "h">>, <<"a", "c", "h", "i", "e", "v", "i", "n", "g">>, <<"o", "p", "t", "i", "m", "i", "z", "e", "d">>}

HasChar(t, c) == \E k \in 1..Len(t) : t[k] = c
HasWordOf(t, words) == \E w \in words : Contains(Lower(t), w)

\* is_likely_project_name, on the stripped text
is_likely_project_name(text) ==
    LET t == Strip(text)
    IN  IF t = <<>> THEN FALSE
        ELSE IF HasChar(t, "|") /\ Len(t) < ProjectNameMax THEN TRUE
        ELSE IF Len(t) > ContinuationLen THEN FALSE
        ELSE IF HasWordOf(t, tech_words) /\ ~(HasChar(t, "|") \/ HasChar(t, ":")) THEN FALSE
        ELSE IF Len(t) < ShortNameLen /\ ~HasWordOf(t, ContinuationWords) THEN TRUE
        ELSE (HasChar(t, "|") \/ HasChar(t, ":")) /\ Len(t) < ProjectNameMax

\* is_bullet_line of _project_blocks
is_bullet_line(stripped) ==
    /\ stripped # <<>>
    /\ \/ stripped[1] \in {"bullet", "-", "ndash", "mdash", "*"}
       \/ stripped[1] \in DigitCh /\ HasChar(SubSeq(stripped, 1, Min(3, Len(stripped))), ".")

\* name_text.split("|")[0].strip()
BeforeBar(name_text) == Strip(SubSeq(name_text, 1, SpanLen(name_text, Chars \ {"|"})))
ProjectName(name_buf) == BeforeBar(Strip(Join(StripAll(name_buf), <<" ">>)))

\* flush of _project_blocks, on the state [blocks, name_buf, chunk]
ProjectFlush(st) ==
    IF st.chunk = <<>> THEN st
    ELSE [blocks |-> IF collect_bullets(st.chunk) # <<>>
                     THEN Append(st.blocks, [name |-> ProjectName(st.name_buf),
                                             bullets |-> collect_bullets(st.chunk)])
                     ELSE st.blocks,
          name_buf |-> <<>>,
          chunk |-> <<>>]

AddName(st, ln) == [st EXCEPT !.name_buf = Append(@, ln)]

\* one line of the loop of _project_blocks
ProjectLine(st, ln) ==
    IF is_bullet_line(Strip(ln)) THEN [st EXCEPT !.chunk = Append(@, ln)]
    ELSE IF Strip(ln) = <<>> THEN ProjectFlush(st)
    ELSE IF is_likely_project_name(Strip(ln)) THEN AddName(ProjectFlush(st), ln)
    ELSE IF st.chunk # <<>> \/ st.name_buf # <<>> THEN [st EXCEPT !.chunk = Append(@, ln)]
    ELSE st

RECURSIVE ProjectLoop(_, _, _)
ProjectLoop(ls, k, st) == IF k > Len(ls) THEN st ELSE ProjectLoop(ls, k + 1, ProjectLine(st, ls[k]))

\* the fallback to a single block without a name
BlocksOr(ls, blocks) ==
    IF blocks = <<>> /\ collect_bullets(ls) # <<>>
    THEN <<[name |-> <<>>, bullets |-> collect_bullets(ls)]>>
    ELSE blocks
project_blocks(ls) ==
    BlocksOr(ls, ProjectFlush(ProjectLoop(ls, 1, [blocks |-> <<>>, name_buf |-> <<>>, chunk |-> <<>>])).blocks)

LookAhead == 6
ProjectishLen == 80

\* has_projectish of parse_resume_text
ProjectishLine(t) ==
    /\ Contains(t, <<" ", "|", " ">>) \/ (HasChar(t, ":") /\ Len(t) < ProjectishLen)
    /\ ~is_bullet(t)
has_projectish(ls) ==
    \E i \in 1..Len(ls) :
        /\ ProjectishLine(Strip(ls[i]))
        /\ \E j \in (i + 1)..Min(i + LookAhead - 1, Len(ls)) : is_bullet(Strip(ls[j]))

\* EMAIL_RX, PHONE_RX and URL_RX of utils.py, on the characters of the model
\* [A-Za-z0-9._%+\-]+@[A-Za-z0-9.\-]+\.[A-Za-z]{2,}
EMAIL_RX ==
    RxAll(Cat(<<Rep(Cls(UpperCh \cup LowerCh \cup DigitCh \cup {"+", "-", ".", "_"
    }), 1, -1), Lit(<<"@">>), Rep(Cls(UpperCh \cup LowerCh \cup DigitCh \cup {
    "-", "."}), 1, -1), Lit(<<".">>), Rep(Cls(UpperCh \cup LowerCh), 2, -1)>>),
    FALSE)
\* (?:\+?\d{1,3}[\s\-\.]?)?(?:\(?\d{3}\)?[\s\-\.]?)\d{3}[\s\-\.]?\d{4}
PHONE_RX ==
    RxAll(Cat(<<Rep(Cat(<<Rep(Lit(<<"+">>), 0, 1), Rep(Cls(DigitCh), 1, 3),
    Rep(Cls(SpaceCh \cup {"-", "."}), 0, 1)>>), 0, 1), Rep(Lit(<<"(">>), 0, 1),
    Rep(Cls(DigitCh), 3, 3), Rep(Lit(<<")">>), 0, 1), Rep(Cls(SpaceCh \cup {
    "-", "."}), 0, 1), Rep(Cls(DigitCh), 3, 3), Rep(Cls(SpaceCh \cup {"-", "."
    }), 0, 1), Rep(Cls(DigitCh), 4, 4)>>), FALSE)
\* \b(https?://|www\.)[^\s]+, re.I
URL_RX ==
    Rx(Cat(<<WordB>>), Alt(<<Cat(<<Lit(<<"h", "t", "t", "p">>), Rep(Lit(<<"s">>),
    0, 1), Lit(<<":", "/", "/">>)>>), Lit(<<"w", "w", "w", ".">>)>>),
    Cat(<<Rep(Cls(Chars \ (SpaceCh)), 1, -1)>>), TRUE)
\* \b(?:https?://|www\.)[^\s]+, re.I
FullUrlRx ==
    RxAll(Cat(<<WordB, Alt(<<Cat(<<Lit(<<"h", "t", "t", "p">>), Rep(Lit(<<"s">>),
    0, 1), Lit(<<":", "/", "/">>)>>), Lit(<<"w", "w", "w", ".">>)>>),
    Rep(Cls(Chars \ (SpaceCh)), 1, -1)>>), TRUE)

\* the texts of the matches ms in s
MatchTexts(s, ms) == [k \in 1..Len(ms) |-> SubSeq(s, ms[k].start, ms[k].stop - 1)]
FindAll(rx, s) == MatchTexts(s, FindIter(rx, s, 1))
FirstOrNone(xs) == IF xs = <<>> THEN None ELSE xs[1]

\* www. becomes https://www.
FullUrl(u) == IF HasAt(Lower(u), 1, <<"w", "w", "w", ".">>) THEN <<"h", "t", "t", "p", "s", ":", "/", "/">> \o u ELSE u
FullUrls(us) == [k \in 1..Len(us) |-> FullUrl(us[k])]

NameLines == 6
IsContactLine(ln) == HasChar(ln, "@") \/ Found(EMAIL_RX, ln) \/ Found(URL_RX, ln) \/ Found(PHONE_RX, ln)
\* the name guess: the first of the first NameLines lines that is neither
\* blank nor contact details, unless a section name comes first (a
\* lower-cased string is never isupper())
RECURSIVE NameLoop(_, _)
NameLoop(ls, k) ==
    IF k > Min(NameLines, Len(ls)) THEN None
    ELSE IF Strip(ls[k]) = <<>> THEN NameLoop(ls, k + 1)
    ELSE IF StripSet(Lower(Strip(ls[k])), {":"}) \in KnownSections THEN None
    ELSE IF IsContactLine(ls[k]) THEN NameLoop(ls, k + 1)
    ELSE Strip(ls[k])

\* the dict of extract_contact: a key it drops is None here (links: empty)
ContactOf(ls, text) ==
    [name |-> NameLoop(ls, 1),
     email |-> FirstOrNone(FindAll(EMAIL_RX, text)),
     phone |-> FirstOrNone(FindAll(PHONE_RX, text)),
     links |-> dedupe_keep_order(FullUrls(FindAll(FullUrlRx, text)))]
extract_contact(ls) == ContactOf(ls, Join(ls, <<"nl">>))

EmptyContact == [name |-> None, email |-> None, phone |-> None, links |-> <<>>]
\* contact or None
ContactOrNone(c) == IF c = EmptyContact THEN None ELSE c

\* " ".join([l.strip() for l in ...]).strip() or None
SummaryOf(ls) == IF Strip(Join(StripAll(ls), <<" ">>)) = <<>> THEN None ELSE Strip(Join(StripAll(ls), <<" ">>))

\* sections.get("experience", []) or lines
OrLines(xs, ls) == IF xs = <<>> THEN ls ELSE xs

\* the lines given to _project_blocks
ProjectLinesOf(proj_lines, ls) == IF proj_lines = <<>> /\ has_projectish(ls) THEN ls ELSE proj_lines

EducationOf(edu_lines) ==
    IF edu_lines = <<>> THEN None
    ELSE <<[school |-> Strip(Join(edu_lines, <<" ">>)), degree |-> <<>>, grad |-> <<>>]>>

modeled == {<<"s", "u", "m", "m", "a", "r", "y">>, <<"s", "k", "i", "l", "l", "s">>, <<"e", "x", "p", "e", "r", "i", "e", "n", "c", "e">>, <<"p", "r", "o", "j", "e", "c", "t", "s">>, <<"e", "d", "u", "c", "a", "t", "i", "o", "n">>, <<"r", "e", "s", "p", "o", "n", "s", "i", "b", "i", "l", "i", "t", "i", "e", "s">>, <<"r", "e", "q", "u", "i", "r", "e", "m", "e", "n", "t", "s">>, <<"p", "r", "e", "f", "e", "r", "r", "e", "d">>}

\* bs if bs else [l.strip() for l in body if l.strip()]
OtherBody(body) ==
    IF collect_bullets(body) # <<>> THEN collect_bullets(body) ELSE SelectSeq(StripAll(body), NonEmptyStr)
\* other_sections[canon] = value, on the list of the dict's items
PutSection(out, canon, value) ==
    IF \E k \in 1..Len(out) : out[k].name = canon
    THEN [k \in 1..Len(out) |-> IF out[k].name = canon THEN [name |-> canon, lines |-> value] ELSE out[k]]
    ELSE Append(out, [name |-> canon, lines |-> value])
RECURSIVE OtherLoop(_, _, _)
OtherLoop(secs, k, out) ==
    IF k > Len(secs) THEN out
    ELSE IF guess_section_name(secs[k].name) \in modeled THEN OtherLoop(secs, k + 1, out)
    ELSE OtherLoop(secs, k + 1, PutSection(out, guess_section_name(secs[k].name), OtherBody(secs[k].body)))
OtherSections(secs) == OrNone(OtherLoop(secs, 1, <<>>))

SkillsOrNone(secs) == or_none(normalize_skill_lines(SectionGet(secs, <<"s", "k", "i", "l", "l", "s">>)))

\* parse.py 288: skills = normalize_skill_lines(sections.get("skills", []))
SkillsOf(secs) == normalize_skill_lines(SectionGet(secs, <<"s", "k", "i", "l", "l", "s">>))

ResumeOfSections(ls, secs) ==
    [contact |-> ContactOrNone(extract_contact(ls)),
     summary |-> SummaryOf(SectionGet(secs, <<"s", "u", "m", "m", "a", "r", "y">>)),
     skills |-> SkillsOf(secs),
     experience |-> split_experience_roles(OrLines(SectionGet(secs, <<"e", "x", "p", "e", "r", "i", "e", "n", "c", "e">>), ls)),
     projects |-> OrNone(project_blocks(ProjectLinesOf(SectionGet(secs, <<"p", "r", "o", "j", "e", "c", "t", "s">>), ls))),
     education |-> EducationOf(SectionGet(secs, <<"e", "d", "u", "c", "a", "t", "i", "o", "n">>)),
     other_sections |-> OtherSections(secs)]
ResumeOfLines(ls) == ResumeOfSections(ls, split_sections(ls))
parse_resume_text(content) == ResumeOfLines(TextLines(normalize_text(content)))

-----------------------------------------------------------------------------
(* Each specification below exercises one part of the program; the         *)
(* variables of the other parts stay in their idle state.                  *)

CanonIdle ==
    /\ cTerms = <<>> /\ cOnce = <<>> /\ cTwice = <<>> /\ cPc = "idle"

RolesIdle ==
    /\ lines = <<>>
    /\ idx = 0
    /\ current = <<>>
    /\ roles = <<>>
    /\ xPc = "idle"

RecencyIdle ==
    /\ rStart = <<>> /\ rEndA = <<>> /\ rEndB = <<>> /\ rToday = NoDate
    /\ rWA = 0 /\ rWB = 0 /\ rPc = "idle"

SectionsIdle ==
    /\ sLines = <<>> /\ sIdx = 0 /\ sCurrent = <<>> /\ sSections = <<>> /\ sPc = "idle"

ParseIdle ==
    /\ pKind = <<>> /\ pContent = <<>> /\ pResult = <<>> /\ pPc = "idle"

DatesIdle ==
    /\ dText = <<>> /\ dToday = NoDate /\ dResult = NoDate /\ dPc = "idle"

HygieneIdle ==
    /\ hResume = <<>> /\ hFlags = <<>> /\ hPc = "idle"

LazyIdle ==
    /\ gCanonFor = 0 /\ gVariants = 0 /\ gHeap = <<>> /\ gBuilds = 0
    /\ tPc = <<>> /\ tK = <<>> /\ tTable = <<>> /\ tTerms = <<>> /\ tOut = <<>>

TwiceIdle ==
    /\ wResume = <<>> /\ wJd = <<>> /\ wCfg = <<>> /\ wToday = NoDate /\ wDay1 = NoDate
    /\ wFirst = <<>> /\ wSecond = <<>> /\ wTable = FALSE /\ wPc = "idle"

ScoresIdle == fJd = <<>> /\ fResume = <<>> /\ fOut = <<>> /\ fPc = "idle"

UsageIdle == uLimit = 0 /\ uDbUsed = 0 /\ uPc = <<>> /\ uLocal = <<>>

AnalyzeIdle ==
    /\ aResume = <<>> /\ aJd = <<>> /\ aCfg = <<>> /\ aToday = NoDate
    /\ aResult = <<>> /\ aRaw = 0 /\ aPc = "idle"

-----------------------------------------------------------------------------
(* Specification SpecCanon: canonicalize_terms on a list, then on its own  *)
(* result                                                                  *)

MaxTerms == 3

TermVocab == {
    <<"j", "s">>,
    <<"J", "S">>,
    <<"j", "a", "v", "a", "s", "c", "r", "i", "p", "t">>,
    <<"J", "a", "v", "a", "S", "c", "r", "i", "p", "t">>,
    <<"k", "8", "s">>,
    <<"r", "u", "s", "t">>,
    <<"-", " ", "-", " ", "r", "u", "s", "t">>,
    <<"!", "-", "r", "u", "s", "t">>,
    <<" ", "G", "o", " ", " ", "l", "a", "n", "g", " ">> }

CanonInit ==
    /\ RecencyIdle
    /\ UsageIdle
    /\ ScoresIdle
    /\ TwiceIdle
    /\ LazyIdle
    /\ HygieneIdle
    /\ DatesIdle
    /\ ParseIdle
    /\ SectionsIdle
    /\ RolesIdle
    /\ AnalyzeIdle
    /\ cTerms \in ListsUpTo(TermVocab, MaxTerms)
    /\ cOnce = <<>>
    /\ cTwice = <<>>
    /\ cPc = "start"

CanonFirst ==
    /\ cPc = "start"
    /\ cOnce' = canonicalize_terms(cTerms)
    /\ cPc' = "once"
    /\ UNCHANGED <<cTerms, cTwice>>
    /\ UNCHANGED <<recencyVars, rolesVars, analyzeVars, sectionVars, parseVars, dateVars, hygieneVars, lazyVars, twiceVars, scoreVars, usageVars>>

CanonSecond ==
    /\ cPc = "once"
    /\ cTwice' = canonicalize_terms(cOnce)
    /\ cPc' = "twice"
    /\ UNCHANGED <<cTerms, cOnce>>
    /\ UNCHANGED <<recencyVars, rolesVars, analyzeVars, sectionVars, parseVars, dateVars, hygieneVars, lazyVars, twiceVars, scoreVars, usageVars>>

CanonNext == CanonFirst \/ CanonSecond

SpecCanon == CanonInit /\ [][CanonNext]_vars

\* C6: canonicalize_terms is idempotent: applying it to its own result
\* returns that result unchanged (same elements, same order).
C6_Idempotent == cPc = "twice" => cTwice = cOnce

\* the spellings of one registry entry, compared without letter case
AliasSpellings(e) == {Lower(e.canon)} \cup {Lower(e.aliases[i]) : i \in 1..Len(e.aliases)}

-----------------------------------------------------------------------------
(* Specification SpecRecency: the recency weights of two roles that are    *)
(* identical except for their end date                                     *)

EndVocab == {
    <<"P", "r", "e", "s", "e", "n", "t">>,
    <<"p", "r", "e", "s", "e", "n", "t", " ">>,
    <<"O", "c", "t", " ", "2", "0", "2", "4">>,
    <<"O", "c", "t", "o", "b", "e", "r", " ", "2", "0", "1", "9">>,
    <<"2", "0", "2", "4">>,
    <<"2", "0", "1", "9">>,
    <<"1", "0", "/", "2", "0", "2", "4">>,
    <<"1", "3", "/", "2", "0", "2", "4">>,
    <<"0", "6", "/", "1", "9">>,
    <<"'", "2", "4">>,
    <<"'", "8", "5">>,
    <<"S", "e", "p", "t", " ", "2", "0", "2", "3">>,
    <<"D", "e", "c", " ", "2", "3">>,
    <<"D", "e", "c", " ", "2", "0", "3", "0">>,
    <<"I", "n", "v", "a", "l", "i", "d", " ", "t", "e", "x", "t">>,
    <<>>,
    None }

StartVocab == {
    <<>>,
    <<"J", "a", "n", " ", "2", "0", "2", "0">>,
    <<"2", "0", "1", "5">>,
    None }

\* the days on which the weights are computed (date.today())
TodayVocab == {Date(2025, 8, 15), Date(2026, 11, 4), Date(2024, 10, 1)}

Role(start, end) ==
    [company |-> <<>>, role |-> <<>>, location |-> None, start |-> start, end |-> end, bullets |-> <<>>]

RecencyInit ==
    /\ CanonIdle
    /\ UsageIdle
    /\ ScoresIdle
    /\ TwiceIdle
    /\ LazyIdle
    /\ HygieneIdle
    /\ DatesIdle
    /\ ParseIdle
    /\ SectionsIdle
    /\ RolesIdle
    /\ AnalyzeIdle
    /\ rStart \in StartVocab
    /\ rEndA \in EndVocab
    /\ rEndB \in EndVocab
    /\ rToday \in TodayVocab
    /\ rWA = 0 /\ rWB = 0
    /\ rPc = "start"

RecencyWeigh ==
    /\ rPc = "start"
    /\ rWA' = role_recency_weight(Role(rStart, rEndA), rToday)
    /\ rWB' = role_recency_weight(Role(rStart, rEndB), rToday)
    /\ rPc' = "done"
    /\ UNCHANGED <<rStart, rEndA, rEndB, rToday>>
    /\ UNCHANGED <<canonVars, rolesVars, analyzeVars, sectionVars, parseVars, dateVars, hygieneVars, lazyVars, twiceVars, scoreVars, usageVars>>

SpecRecency == RecencyInit /\ [][RecencyWeigh]_vars

\* d1 is an earlier day than d2, or the same day
DateLeq(d1, d2) ==
    \/ d1.year < d2.year
    \/ d1.year = d2.year /\ d1.month < d2.month
    \/ d1.year = d2.year /\ d1.month = d2.month /\ d1.day <= d2.day

\* C9: recency is monotone in the end date: a role ending "Present" weighs
\* at least as much as the same role with an end date five or more years
\* back, and of two parseable end dates the earlier never weighs more.
C9_RecencyMonotone ==
    rPc = "done" =>
        LET dA == parse_month_year(rEndA, rToday)
            dB == parse_month_year(rEndB, rToday)
        IN  /\ (IsPresent(rEndA) /\ dB # NoDate /\ months_ago(dB, rToday) >= 60) => rWA >= rWB
            /\ (dA # NoDate /\ dB # NoDate /\ DateLeq(dA, dB)) => rWA <= rWB

C9_Witness ==
    /\ rPc = "done"
    /\ IsPresent(rEndA)
    /\ rEndB = <<"O", "c", "t", "o", "b", "e", "r", " ", "2", "0", "1", "9">>
    /\ rWA = WeightCeil
    /\ rWB = WeightFloor

\* a date string that is there and that _parse_month_year maps to None
Unparseable(x, today) == IsNonEmptyStr(x) /\ parse_month_year(x, today) = NoDate

\* C23: role_recency_weight returns the neutral weight 0.5 when the end date
\* is unparseable, when there is no end date and the start date is
\* unparseable, and when both dates are absent; for an end date that is
\* "Present" or parseable it returns exp(-months_since_end / 18) clamped to
\* [0.15, 1.0], with 0 months for "Present".
C23_NeutralWhenUnparseable ==
    rPc = "done" =>
        /\ Unparseable(rEndA, rToday) => rWA = NeutralWeight
        /\ (~IsNonEmptyStr(rEndA) /\ (~IsNonEmptyStr(rStart) \/ Unparseable(rStart, rToday))) => rWA = NeutralWeight
        /\ IsPresent(rEndA) => rWA = WeightCeil
        /\ (IsNonEmptyStr(rEndA) /\ ~IsPresent(rEndA) /\ ~Unparseable(rEndA, rToday)) =>
                rWA = Max(WeightFloor, Min(WeightCeil, ExpDecay(months_ago(parse_month_year(rEndA, rToday), rToday))))

-----------------------------------------------------------------------------
(* SpecRoles: _split_experience_roles, one action per iteration of its     *)
(* main loop.  idx is the 0-based index i of the code; lines[i] of the     *)
(* code is lines[idx + 1] here.  current is << >> for the empty dict and   *)
(* <<r>> for an open role r.                                               *)

MaxLines == 4

LineVocab == {
    <<"S", "o", "f", "t", "w", "a", "r", "e", " ", "E", "n", "g", "i", "n", "e", "e", "r">>,
    <<"O", "c", "t", " ", "2", "0", "2", "3", " ", "ndash", " ", "P", "r", "e", "s", "e", "n", "t">>,
    <<"A", "c", "m", "e", " ", "C", "o", "r", "p", ",", " ", "R", "e", "m", "o", "t", "e">>,
    <<"bullet", " ", "B", "u", "i", "l", "t", " ", "A", "P", "I", "s">>,
    <<>>,
    <<"D", "a", "t", "a", " ", "A", "n", "a", "l", "y", "s", "t", " ", " ", "2", "0", "2", "0", " ", "-", " ", "2", "0", "2", "2">>}

ExampleBlock == <<<<"S", "o", "f", "t", "w", "a", "r", "e", " ", "E", "n", "g", "i", "n", "e", "e", "r">>, <<"O", "c", "t", " ", "2", "0", "2", "3", " ", "ndash", " ", "P", "r", "e", "s", "e", "n", "t">>, <<"A", "c", "m", "e", " ", "C", "o", "r", "p", ",", " ", "R", "e", "m", "o", "t", "e">>, <<"bullet", " ", "B", "u", "i", "l", "t", " ", "A", "P", "I", "s">>>>

RolesInit ==
    /\ CanonIdle
    /\ UsageIdle
    /\ ScoresIdle
    /\ TwiceIdle
    /\ LazyIdle
    /\ HygieneIdle
    /\ DatesIdle
    /\ ParseIdle
    /\ SectionsIdle
    /\ RecencyIdle
    /\ AnalyzeIdle
    /\ lines \in ListsUpTo(LineVocab, MaxLines)
    /\ idx = 0
    /\ current = <<>>
    /\ roles = <<>>
    /\ xPc = "start"

\* lines 176-190
SplitStart ==
    /\ xPc = "start"
    /\ lines' = preprocess_experience_lines(lines)
    /\ idx' = 0
    /\ roles' = <<>>
    /\ current' = <<>>
    /\ xPc' = "loop"
    /\ UNCHANGED <<canonVars, recencyVars, analyzeVars, sectionVars, parseVars, dateVars, hygieneVars, lazyVars, twiceVars, scoreVars, usageVars>>

\* lines 196-234, 270
HeaderLine ==
    /\ xPc = "loop"
    /\ idx < Len(lines)
    /\ likely_role_header(RStrip(lines[idx + 1]))
    /\ roles' = flush(roles, current)
    /\ \E st \in {HeaderStep(lines, idx)} :
           /\ current' = st.current
           /\ idx' = st.idx
    /\ UNCHANGED <<lines, xPc>>
    /\ UNCHANGED <<canonVars, recencyVars, analyzeVars, sectionVars, parseVars, dateVars, hygieneVars, lazyVars, twiceVars, scoreVars, usageVars>>

\* lines 237-270
BulletBlock ==
    /\ xPc = "loop"
    /\ idx < Len(lines)
    /\ ~likely_role_header(RStrip(lines[idx + 1]))
    /\ is_bullet(RStrip(lines[idx + 1])) \/ Strip(RStrip(lines[idx + 1])) # <<>>
    /\ \E st \in {BlockTaken(lines, idx, BlockEnd(lines, idx + 1),
                             IF current = <<>> THEN Placeholder ELSE current[1])} :
           /\ current' = st.current
           /\ idx' = st.idx
    /\ UNCHANGED <<lines, roles, xPc>>
    /\ UNCHANGED <<canonVars, recencyVars, analyzeVars, sectionVars, parseVars, dateVars, hygieneVars, lazyVars, twiceVars, scoreVars, usageVars>>

\* lines 235-237, 270: a blank line outside a block
BlankLine ==
    /\ xPc = "loop"
    /\ idx < Len(lines)
    /\ ~likely_role_header(RStrip(lines[idx + 1]))
    /\ ~(is_bullet(RStrip(lines[idx + 1])) \/ Strip(RStrip(lines[idx + 1])) # <<>>)
    /\ idx' = idx + 1
    /\ UNCHANGED <<lines, current, roles, xPc>>
    /\ UNCHANGED <<canonVars, recencyVars, analyzeVars, sectionVars, parseVars, dateVars, hygieneVars, lazyVars, twiceVars, scoreVars, usageVars>>

\* lines 272-278
SplitReturn ==
    /\ xPc = "loop"
    /\ ~(idx < Len(lines))
    /\ roles' = SelectSeq(flush(roles, current), HasBullets)
    /\ xPc' = "done"
    /\ UNCHANGED <<lines, idx, current>>
    /\ UNCHANGED <<canonVars, recencyVars, analyzeVars, sectionVars, parseVars, dateVars, hygieneVars, lazyVars, twiceVars, scoreVars, usageVars>>

RolesNext == SplitStart \/ HeaderLine \/ BulletBlock \/ BlankLine \/ SplitReturn

SpecRoles == RolesInit /\ [][RolesNext]_vars

\* C29: _split_experience_roles terminates on every finite list of lines:
\* each iteration of its main loop leaves the line index strictly greater
\* than it found it, after the company-line lookahead and after a bullet
\* block too, and never beyond the number of lines; the index never moves
\* backwards; every run of the function takes finitely many steps.
C29_Terminates ==
    /\ [][(xPc = "loop" /\ xPc' = "loop") => (idx < idx' /\ idx' <= Len(lines))]_vars
    /\ [][idx <= idx']_vars
    /\ <>[][FALSE]_vars

\* the loop has ended after a header whose lookahead took a company line
\* and after a bullet block of that role
C29_Witness ==
    /\ xPc = "done"
    /\ idx = Len(lines)
    /\ Len(lines) = MaxLines
    /\ roles # <<>>
    /\ roles[1].company # <<>>
    /\ roles[1].bullets # <<>>

\* C10: a title-only header line, a date-range line, a company/location
\* line and a bullet line parse to exactly one role: role "Software
\* Engineer", start "Oct 2023", end "Present", company containing
\* "Acme Corp", location "Remote" and the one bullet "Built APIs".
C10_RoleExtraction ==
    (xPc = "done" /\ lines = ExampleBlock) =>
        /\ Len(roles) = 1
        /\ roles[1].role = <<"S", "o", "f", "t", "w", "a", "r", "e", " ", "E", "n", "g", "i", "n", "e", "e", "r">>
        /\ roles[1].start = <<"O", "c", "t", " ", "2", "0", "2", "3">>
        /\ roles[1].end = PresentWord
        /\ Contains(roles[1].company, <<"A", "c", "m", "e", " ", "C", "o", "r", "p">>)
        /\ roles[1].location = <<"R", "e", "m", "o", "t", "e">>
        /\ roles[1].bullets = <<<<"B", "u", "i", "l", "t", " ", "A", "P", "I", "s">>>>

\* the header lines of the input: each of them opens a role
HeaderLines == {k \in 1..Len(lines) : likely_role_header(RStrip(lines[k]))}

\* the open role as flush() leaves it
Flushed(cur) == [cur EXCEPT !.bullets = SelectSeq(@, NonEmptyStr)]

\* C11: every role _split_experience_roles returns has a non-empty bullets
\* list, so a role that was flushed with no bullet is not returned, and the
\* role that is open at the end of the input is flushed: when it has a
\* bullet it is the last role returned.
C11_RolesHaveBullets ==
    xPc = "done" =>
        /\ \A k \in 1..Len(roles) : roles[k].bullets # <<>>
        /\ (current # <<>> /\ Flushed(current[1]).bullets # <<>>) =>
               (roles # <<>> /\ roles[Len(roles)] = Flushed(current[1]))

\* two header lines, the first without a bullet: one role is returned, the
\* one that was open at the end
C11_Witness ==
    /\ xPc = "done"
    /\ Cardinality(HeaderLines) = 2
    /\ Len(roles) = 1
    /\ current # <<>>
    /\ roles[1] = Flushed(current[1])

-----------------------------------------------------------------------------
(* Specification SpecAnalyze: one request to POST /api/analyze, answered   *)
(* by one of the three return paths of analyze_endpoint, and the same      *)
(* inputs given to analyze() directly                                      *)

\* the longest list of skills of a resume, and of a JD
MaxSkills == 1
MaxJdSkills == 1

RECURSIVE PickFrom(_, _, _)
PickFrom(seq, I, k) ==
    IF k > Len(seq) THEN <<>>
    ELSE (IF k \in I THEN <<seq[k]>> ELSE <<>>) \o PickFrom(seq, I, k + 1)
\* the lists of at most n entries of seq, in the order of seq
SubSeqsUpTo(seq, n) ==
    {PickFrom(seq, I, 1) : I \in {J \in SUBSET (1..Len(seq)) : Cardinality(J) <= n}}

SkillList == <<<<"P", "y", "t", "h", "o", "n">>, <<"j", "s">>>>
JdSkillList == <<<<"P", "y", "t", "h", "o", "n">>, <<"J", "a", "v", "a", "S", "c", "r", "i", "p", "t">>>>
RecentRole ==
    [company |-> <<"A", "c", "m", "e">>, role |-> <<"P", "y", "t", "h", "o", "n", " ", "E", "n", "g", "i", "n", "e", "e", "r">>, location |-> None, start |-> <<"J", "a", "n", " ", "2", "0", "2", "0">>, end |-> <<"P", "r", "e", "s", "e", "n", "t">>, bullets |-> <<<<"B", "u", "i", "l", "t", " ", "3", " ", "P", "y", "t", "h", "o", "n", " ", "A", "P", "I", "s", " ", "o", "n", " ", "A", "W", "S">>>>]
OldRole ==
    [company |-> <<"I", "n", "i", "t", "e", "c", "h">>, role |-> <<"D", "a", "t", "a", " ", "A", "n", "a", "l", "y", "s", "t">>, location |-> None, start |-> <<"2", "0", "1", "5">>, end |-> <<"2", "0", "1", "9">>, bullets |-> <<<<"I", " ", "w", "a", "s", " ", "t", "a", "s", "k", "e", "d", " ", "w", "i", "t", "h", " ", "v", "a", "r", "i", "o", "u", "s", " ", "p", "r", "o", "j", "e", "c", "t", "s">>>>]
SideProject == [name |-> <<"k", "8", "s", " ", "d", "a", "s", "h", "b", "o", "a", "r", "d">>, bullets |-> <<<<"D", "e", "p", "l", "o", "y", "e", "d", " ", "P", "y", "t", "h", "o", "n">>>>]
PhoneContact == [email |-> None, phone |-> <<"5", "5", "5", "-", "0", "1", "0", "0">>, links |-> <<>>]

Resumes ==
    {[contact |-> c, skills |-> s, experience |-> e, projects |-> p] :
        c \in {NoContact, PhoneContact},
        s \in SubSeqsUpTo(SkillList, MaxSkills),
        e \in {<<>>, <<RecentRole>>, <<RecentRole, OldRole>>},
        p \in {NoProjects, <<>>, <<SideProject>>}}

JdTitle == <<"S", "e", "n", "i", "o", "r", " ", "P", "y", "t", "h", "o", "n", " ", "E", "n", "g", "i", "n", "e", "e", "r">>
JdCompany == <<"A", "c", "m", "e">>
JDs ==
    {[title |-> m[1], company |-> m[2], skills |-> s, required |-> q, responsibilities |-> r, preferred |-> p] :
        m \in {<<None, None>>, <<JdTitle, JdCompany>>},
        s \in SubSeqsUpTo(JdSkillList, MaxJdSkills),
        q \in {<<>>, <<<<"T", "e", "a", "m", "w", "o", "r", "k">>>>},
        r \in {<<>>, <<<<"b", "u", "i", "l", "d">>>>,
               <<<<"B", "u", "i", "l", "d", " ", "a", "n", "d", " ", "d", "e", "p", "l", "o", "y", " ", "A", "P", "I", "s">>>>},
        p \in {NoList, <<<<"P", "y", "t", "h", "o", "n">>>>}}

\* config.WEIGHTS: the defaults, and two settings of the environment that
\* config.validate() reports and the program runs with all the same
DefaultWeights == [core |-> 40, preferred |-> 15, verbs |-> 20, domain |-> 10, recency |-> 10, hygiene |-> 5]
HeavyWeights == [core |-> 90, preferred |-> 30, verbs |-> 40, domain |-> 20, recency |-> 20, hygiene |-> 10]
NegativeWeights == [core |-> -40, preferred |-> -15, verbs |-> -20, domain |-> -10, recency |-> -10, hygiene |-> -5]
DefaultCfg == [weights |-> DefaultWeights, enhanced |-> TRUE]
Cfgs == {[weights |-> w, enhanced |-> e] : w \in {DefaultWeights, HeavyWeights, NegativeWeights}, e \in BOOLEAN}
Today == Date(2026, 11, 4)

\* the resume that is combined with every JD, the JD that is combined with
\* every resume, and the JD with every kind of content
CoreResume ==
    [contact |-> PhoneContact, skills |-> <<SkillList[2]>>, experience |-> <<RecentRole>>, projects |-> <<SideProject>>]
CoreJD ==
    [title |-> None, company |-> None, skills |-> <<JdSkillList[2]>>, required |-> <<>>,
     responsibilities |-> <<>>, preferred |-> NoList]
FullJD ==
    [title |-> JdTitle, company |-> JdCompany, skills |-> <<JdSkillList[1]>>, required |-> <<<<"T", "e", "a", "m", "w", "o", "r", "k">>>>,
     responsibilities |-> <<<<"B", "u", "i", "l", "d", " ", "a", "n", "d", " ", "d", "e", "p", "l", "o", "y", " ", "A", "P", "I", "s">>>>, preferred |-> <<<<"P", "y", "t", "h", "o", "n">>>>]

AnalyzeInit ==
    /\ aResume \in Resumes
    /\ aJd \in JDs
    /\ aCfg \in Cfgs
    /\ aToday \in TodayVocab
    /\ aResume = CoreResume \/ aJd = CoreJD \/ (EmptyResume(aResume) /\ ~has_requirements(aJd))
    /\ (aCfg = DefaultCfg /\ aToday = Today)
       \/ (aResume = CoreResume /\ aJd \in {CoreJD, FullJD} /\ (aCfg = DefaultCfg \/ aToday = Today))
    /\ aResult = <<>>
    /\ aRaw = 0
    /\ aPc = "request"
    /\ CanonIdle
    /\ UsageIdle
    /\ ScoresIdle
    /\ TwiceIdle
    /\ LazyIdle
    /\ HygieneIdle
    /\ DatesIdle
    /\ ParseIdle
    /\ SectionsIdle
    /\ RecencyIdle
    /\ RolesIdle

Return(path, result, raw) ==
    /\ aResult' = result
    /\ aRaw' = raw
    /\ aPc' = path
    /\ UNCHANGED <<aResume, aJd, aCfg, aToday>>
    /\ UNCHANGED <<canonVars, recencyVars, rolesVars, sectionVars, parseVars, dateVars, hygieneVars, lazyVars, twiceVars, scoreVars, usageVars>>

\* analyze_endpoint: the resume has no skills, experience or projects
EmptyResumeReturn ==
    /\ aPc = "request"
    /\ EmptyResume(aResume)
    /\ Return("empty_resume", ShortCircuit(<<>>), 0)

\* analyze_endpoint: the JD has no skills, required or responsibilities
EmptyJdReturn ==
    /\ aPc = "request"
    /\ ~EmptyResume(aResume)
    /\ ~has_requirements(aJd)
    /\ Return("empty_jd", ShortCircuit(missing_msg(aJd)), 0)

\* analyze_endpoint: analyze() and the final validation
FullAnalysis ==
    /\ aPc = "request"
    /\ ~EmptyResume(aResume)
    /\ has_requirements(aJd)
    /\ \E order \in Orders(ExtractedFor(aJd, aCfg)) :
        \E st \in {AnalyzeLocals(aResume, aJd, order, aCfg, aToday)} :
            Return("analyzed", Validated(st.result), st.raw)

\* analyze() called with the same inputs, not through the endpoint
AnalyzeDirect ==
    /\ aPc = "request"
    /\ \E order \in Orders(ExtractedFor(aJd, aCfg)) :
        \E st \in {AnalyzeLocals(aResume, aJd, order, aCfg, aToday)} :
            Return("direct", st.result, st.raw)

AnalyzeNext == EmptyResumeReturn \/ EmptyJdReturn \/ FullAnalysis \/ AnalyzeDirect

SpecAnalyze == AnalyzeInit /\ [][AnalyzeNext]_vars

\* the return paths of analyze_endpoint, and the paths on which analyze() ran
EndpointReturns == {"empty_resume", "empty_jd", "analyzed"}
AnalyzeReturns == {"analyzed", "direct"}

\* the request as the claims describe it
ResumeIsEmpty ==
    aResume.skills = <<>> /\ aResume.experience = <<>> /\ aResume.projects \in {NoProjects, <<>>}
JdHasRequirement == Len(aJd.skills) + Len(aJd.required) + Len(aJd.responsibilities) > 0
JdHasMetadata == aJd.title # None \/ aJd.company # None
WeightSum ==
    aCfg.weights.core + aCfg.weights.preferred + aCfg.weights.verbs
        + aCfg.weights.domain + aCfg.weights.recency + aCfg.weights.hygiene

\* C18: no request is scored with weights whose sum differs from 100: the
\* weights are validated at startup, before any analyze request is served.
C18_WeightsSumTo100 == aPc \in AnalyzeReturns => WeightSum = 100

\* C1: the score that analyze() and each return path of the endpoint give
\* is an integer from 0 to 100, also when the weighted sum with the bonus
\* is above 100 and when the weights do not add up to 100.
C1_ScoreInRange == aPc \in EndpointReturns \cup AnalyzeReturns => aResult.score \in 0..100

C1_Witness ==
    /\ aPc = "analyzed"
    /\ WeightSum # 100
    /\ aRaw > 100 * Million
    /\ aResult.score = 100

\* C2: in the result of analyze() and of each return path of the endpoint
\* the fields matched, missing, normalizedJD.skills,
\* normalizedJD.responsibilities and hygiene_flags are there and are lists,
\* empty ones included, never None.
C2_ListsNeverNull ==
    aPc \in EndpointReturns \cup AnalyzeReturns =>
        /\ {"matched", "missing", "normalizedJD", "hygiene_flags"} \subseteq DOMAIN aResult
        /\ {"skills", "responsibilities"} \subseteq DOMAIN aResult.normalizedJD
        /\ \A x \in {aResult.matched, aResult.missing, aResult.normalizedJD.skills,
                     aResult.normalizedJD.responsibilities, aResult.hygiene_flags} :
                x # NoList /\ DOMAIN x = 1..Len(x)

C2_Witness ==
    /\ aPc = "analyzed"
    /\ aResult.matched = <<>>
    /\ aResult.normalizedJD.responsibilities = <<>>
    /\ aResult.normalizedJD.skills # <<>>

NotScored ==
    /\ aPc \in {"empty_resume", "empty_jd"}
    /\ aResult.score = 0
    /\ aResult.sections = EmptySections
    /\ aResult.normalizedJD = [skills |-> <<>>, responsibilities |-> <<>>]
    /\ aResult.hygiene_flags = <<>>
Explained ==
    aResult.missing \in {<<NoJdMessage>>, <<MetadataOnlyMessage>>, <<NoRequirementsMessage>>}

\* C5 as the specification states it: whenever the resume is empty, or the
\* JD is empty or has metadata only, the request is answered without the
\* scoring pipeline, with score 0 and a missing list that carries an
\* explanatory message.
C5_ShortCircuitExplains ==
    (aPc \in EndpointReturns /\ (ResumeIsEmpty \/ ~JdHasRequirement)) => NotScored /\ Explained

\* C5, amended: whenever the resume is empty, or the JD is empty or has
\* metadata only, the request is answered without the scoring pipeline and
\* with score 0; the missing list carries an explanatory message when the
\* resume is not empty, and is empty when the resume is empty.
C5_ShortCircuitAmended ==
    (aPc \in EndpointReturns /\ (ResumeIsEmpty \/ ~JdHasRequirement)) =>
        /\ NotScored
        /\ IF ResumeIsEmpty THEN aResult.missing = <<>> ELSE Explained

C5_Witness ==
    /\ aPc = "empty_jd"
    /\ JdHasMetadata
    /\ aResult.missing = <<MetadataOnlyMessage>>

\* every core term of the JD canonicalizes to a term of the canonicalized
\* skills of the resume
CoreTermsInSkills ==
    \A t \in Range(canonicalize_terms(aResult.normalizedJD.skills)) :
        t \in Range(canonicalize_terms(aResume.skills))
FullCoverage == aResult.sections.skillsCoveragePct = 100 /\ aResult.missing = <<>>

-----------------------------------------------------------------------------
(* Specification SpecSections: split_sections, one action per iteration of *)
(* its loop.  sIdx is the number of lines already taken.                   *)

MaxSecLines == 3

SectionLineVocab == {
    <<"J", "a", "n", "e", " ", "D", "o", "e">>,
    <<"S", "K", "I", "L", "L", "S">>,
    <<"W", "o", "r", "k", " ", "E", "x", "p", "e", "r", "i", "e", "n", "c", "e", ":">>,
    <<"P", "y", "t", "h", "o", "n", ",", " ", "A", "W", "S">>,
    <<>>,
    <<"u", "n", "k", "n", "o", "w", "n", ":">>,
    <<" ", "N", "o", "t", "e", "s", " ", ":">>}

SectionsInit ==
    /\ CanonIdle
    /\ UsageIdle
    /\ ScoresIdle
    /\ TwiceIdle
    /\ LazyIdle
    /\ HygieneIdle
    /\ DatesIdle
    /\ ParseIdle
    /\ RecencyIdle
    /\ RolesIdle
    /\ AnalyzeIdle
    /\ sLines \in ListsUpTo(SectionLineVocab, MaxSecLines)
    /\ sIdx = 0
    /\ sCurrent = Unknown
    /\ sSections = <<>>
    /\ sPc = "loop"

\* lines 73-76
HeaderSeen ==
    /\ sPc = "loop"
    /\ sIdx < Len(sLines)
    /\ is_header(Strip(sLines[sIdx + 1]))
    /\ sCurrent' = SectionOf(Strip(sLines[sIdx + 1]))
    /\ sSections' = setdefault(sSections, SectionOf(Strip(sLines[sIdx + 1])))
    /\ sIdx' = sIdx + 1
    /\ UNCHANGED <<sLines, sPc>>
    /\ UNCHANGED <<canonVars, recencyVars, rolesVars, analyzeVars, parseVars, dateVars, hygieneVars, lazyVars, twiceVars, scoreVars, usageVars>>

\* lines 73-74, 77-78
BodyLine ==
    /\ sPc = "loop"
    /\ sIdx < Len(sLines)
    /\ ~is_header(Strip(sLines[sIdx + 1]))
    /\ sSections' = AppendTo(sSections, sCurrent, sLines[sIdx + 1])
    /\ sIdx' = sIdx + 1
    /\ UNCHANGED <<sLines, sCurrent, sPc>>
    /\ UNCHANGED <<canonVars, recencyVars, rolesVars, analyzeVars, parseVars, dateVars, hygieneVars, lazyVars, twiceVars, scoreVars, usageVars>>

\* line 79
SectionsReturn ==
    /\ sPc = "loop"
    /\ ~(sIdx < Len(sLines))
    /\ sPc' = "done"
    /\ UNCHANGED <<sLines, sIdx, sCurrent, sSections>>
    /\ UNCHANGED <<canonVars, recencyVars, rolesVars, analyzeVars, parseVars, dateVars, hygieneVars, lazyVars, twiceVars, scoreVars, usageVars>>

SectionsNext == HeaderSeen \/ BodyLine \/ SectionsReturn

SpecSections == SectionsInit /\ [][SectionsNext]_vars

\* the lines of the input that are not headers, and the header lines
BodyIndexes == {k \in 1..Len(sLines) : ~is_header(Strip(sLines[k]))}
HeaderIndexes == {k \in 1..Len(sLines) : is_header(Strip(sLines[k]))}
\* the places <<section, position>> of the returned map that hold a line
BodyPlaces == {p \in (1..Len(sSections)) \X (1..Len(sLines)) : p[2] <= Len(sSections[p[1]].body)}
\* the lines before the first header
LeadingLines == SubSeq(sLines, 1, IF HeaderIndexes = {} THEN Len(sLines)
                                  ELSE (CHOOSE k \in HeaderIndexes : \A j \in HeaderIndexes : k <= j) - 1)
BodyOf(name) == IF HasSection(sSections, name)
                THEN (CHOOSE k \in 1..Len(sSections) : sSections[k].name = name)
                ELSE 0

\* C12: split_sections puts every line that is not a header into the body
\* of exactly one section (each text is found in the bodies as many times
\* as it occurs among those lines), every header line names a section of
\* the result, no section name occurs twice, and the lines before the
\* first header are the first lines of the "unknown" section.
C12_EveryLineInOneSection ==
    sPc = "done" =>
        /\ \A t \in Range(sLines) :
               Cardinality({k \in BodyIndexes : sLines[k] = t})
                   = Cardinality({p \in BodyPlaces : sSections[p[1]].body[p[2]] = t})
        /\ Cardinality(BodyPlaces) = Cardinality(BodyIndexes)
        /\ \A k \in HeaderIndexes : HasSection(sSections, SectionOf(Strip(sLines[k])))
        /\ \A i, j \in 1..Len(sSections) : sSections[i].name = sSections[j].name => i = j
        /\ LeadingLines # <<>> =>
               /\ BodyOf(Unknown) # 0
               /\ SubSeq(sSections[BodyOf(Unknown)].body, 1, Len(LeadingLines)) = LeadingLines

\* a line before the first header, a header, and a line after it: two
\* sections, "unknown" and the header's, with one line each
C12_Witness ==
    /\ sPc = "done"
    /\ Len(sLines) = 3
    /\ HeaderIndexes = {2}
    /\ Len(sSections) = 2
    /\ sSections[1].name = Unknown
    /\ sSections[1].body = <<sLines[1]>>
    /\ sSections[2].body = <<sLines[3]>>

-----------------------------------------------------------------------------
(* Specification SpecParse: one call of parse_text(kind, content), and     *)
(* _normalize_jd_for_scoring on a job description, parsed or given         *)

MaxPieces == 2

\* pieces of text a content is put together from, one per line group:
\* sections of skills, of requirements and preferences, a contact, an
\* experience section whose header line is longer than LongLine, nothing,
\* and control characters with punctuation outside ASCII
PieceVocab == {
    <<"S", "k", "i", "l", "l", "s", ":", "nl", "m", "s", " ", "s", "q", "l", ",", " ", "s", "q", "l", " ", "s", "e", "r", "v", "e", "r", ";", " ", "G", "o">>,
    <<"R", "e", "q", "u", "i", "r", "e", "m", "e", "n", "t", "s", ":", "nl", "-", " ", "P", "y", "t", "h", "o", "n", ",", " ", "g", "o", "nl", "P", "r", "e", "f", "e", "r", "r", "e", "d", ":", "nl", "-", " ", "D", "o", "c", "k", "e", "r">>,
    <<"J", "a", "n", "e", " ", "D", "o", "e", "nl", "j", "a", "n", "e", "@", "x", ".", "i", "o">>,
    <<"E", "x", "p", "e", "r", "i", "e", "n", "c", "e", "nl", "S", "o", "f", "t", "w", "a", "r", "e", " ", "E", "n", "g", "i", "n", "e", "e", "r", " ", "a", "t", " ", "A", "c", "m", "e", " ", "b", "u", "i", "l", "d", "i", "n", "g", " ", "A", "P", "I", "s", " ", "f", "o", "r", " ", "m", "a", "n", "y", " ", "t", "e", "a", "m", "s", " ", "O", "c", "t", " ", "2", "0", "2", "3", " ", "ndash", " ", "P", "r", "e", "s", "e", "n", "t", " ", "D", "a", "t", "a", " ", "A", "n", "a", "l", "y", "s", "t", " ", "a", "t", " ", "I", "n", "i", "t", "e", "c", "h", " ", "w", "i", "t", "h", " ", "r", "e", "p", "o", "r", "t", "s", " ", "J", "a", "n", " ", "2", "0", "2", "0", " ", "ndash", " ", "D", "e", "c", " ", "2", "0", "2", "2", "nl", "bullet", " ", "B", "u", "i", "l", "t", " ", "A", "P", "I", "s", " ", "w", "i", "t", "h", " ", "D", "o", "c", "k", "e", "r">>,
    <<>>,
    <<"tab", "bullet", "cr", "nl", "ndash">>}

Contents == {Join(ps, <<"nl">>) : ps \in ListsUpTo(PieceVocab, MaxPieces)}

ResumeKind == <<"r", "e", "s", "u", "m", "e">>
JdKind == <<"j", "d">>
Kinds == {ResumeKind, JdKind, <<"c", "o", "v", "e", "r">>}

\* job descriptions as a client sends them to scoring
GivenJDs ==
    {[title |-> None, company |-> None, responsibilities |-> <<>>, required |-> r, preferred |-> p, skills |-> s] :
        r \in {<<>>, <<<<"m", "s", " ", "s", "q", "l">>, <<"P", "y", "t", "h", "o", "n", ",", " ", "G", "o">>>>},
        p \in {NoList, <<>>, <<<<"D", "o", "c", "k", "e", "r">>>>},
        s \in {<<>>, <<<<"s", "q", "l", " ", "s", "e", "r", "v", "e", "r">>, <<"g", "o">>>>}}

ValueError == <<"V", "a", "l", "u", "e", "E", "r", "r", "o", "r">>
TypeError == <<"T", "y", "p", "e", "E", "r", "r", "o", "r">>

ParseInit ==
    /\ CanonIdle
    /\ UsageIdle
    /\ ScoresIdle
    /\ TwiceIdle
    /\ LazyIdle
    /\ HygieneIdle
    /\ DatesIdle
    /\ RecencyIdle
    /\ RolesIdle
    /\ AnalyzeIdle
    /\ SectionsIdle
    /\ \/ /\ pKind \in Kinds
          /\ pContent \in Contents
          /\ pResult = <<>>
          /\ pPc = "request"
       \/ /\ pKind = JdKind
          /\ pContent = <<>>
          /\ pResult \in GivenJDs
          /\ pPc = "given"

Returned(pc, result) ==
    /\ pResult' = result
    /\ pPc' = pc
    /\ UNCHANGED <<pKind, pContent>>
    /\ UNCHANGED <<canonVars, recencyVars, rolesVars, analyzeVars, sectionVars, dateVars, hygieneVars, lazyVars, twiceVars, scoreVars, usageVars>>

\* parse.py 408-409
ParseResume ==
    /\ pPc = "request"
    /\ pKind = ResumeKind
    /\ Returned("resume", parse_resume_text(pContent))

\* parse.py 410-411
ParseJd ==
    /\ pPc = "request"
    /\ pKind = JdKind
    /\ \E order \in Orders(JdTechOf(pContent)) : Returned("jd", parse_jd_text(pContent, order))

\* parse.py 412
ParseRejected ==
    /\ pPc = "request"
    /\ pKind \notin {ResumeKind, JdKind}
    /\ Returned("raised", ValueError)

\* analyze.py 286-309
NormalizeForScoring ==
    /\ pPc \in {"jd", "given"}
    /\ ~ScoringRaises(pResult)
    /\ Returned("scoring", normalize_jd_for_scoring(pResult))

\* analyze.py 292-294, on a list that is None
ScoringTypeError ==
    /\ pPc \in {"jd", "given"}
    /\ ScoringRaises(pResult)
    /\ Returned("raised", TypeError)

ParseNext == ParseResume \/ ParseJd \/ ParseRejected \/ NormalizeForScoring \/ ScoringTypeError

SpecParse == ParseInit /\ [][ParseNext]_vars

\* a Python list, and not None
IsList(xs) == xs # NoList /\ DOMAIN xs = 1..Len(xs)
NoDuplicate(xs) == \A i, j \in 1..Len(xs) : xs[i] = xs[j] => i = j
SkillsMerged(jd) ==
    /\ \A k \in 1..Len(jd.skills) : InList(jd.skills[k], jd.required)
    /\ NoDuplicate(jd.required)

\* C13: in every job description that parse_jd_text returns, and in every
\* one that _normalize_jd_for_scoring returns, each entry of skills is also
\* an entry of required, and required holds no entry twice.
C13_SkillsInRequired == pPc \in {"jd", "scoring"} => SkillsMerged(pResult)

\* a parsed job description with skills of which one was already required
\* and another was appended to the requirements of the text
C13_Witness ==
    /\ pPc = "jd"
    /\ pResult.skills # <<>>
    /\ Len(pResult.required) > Len(pResult.skills)
    /\ ~InList(pResult.required[1], pResult.skills)
    /\ InList(pResult.required[Len(pResult.required)], pResult.skills)

\* C14: the skills of every resume that parse_resume_text returns hold no
\* two entries that are equal when compared without regard to case.
C14_SkillsCaseInsensitive ==
    pPc = "resume" =>
        \A i, j \in 1..Len(pResult.skills) :
            Lower(pResult.skills[i]) = Lower(pResult.skills[j]) => i = j

JdFields == {"title", "company", "responsibilities", "required", "preferred", "skills"}
ResumeFields == {"contact", "summary", "skills", "experience", "projects", "education", "other_sections"}

-----------------------------------------------------------------------------
(* Specification SpecDates: one call of _parse_month_year on a string      *)

MaxTokens == 3

\* the pieces the strings are made of
DateTokens == {
    <<"O", "c", "t">>,
    <<"O", "c", "t", "o", "b", "e", "r">>,
    <<"I", "n", "v", "a", "l", "i", "d">>,
    <<"t", "e", "x", "t">>,
    <<"P", "r", "e", "s", "e", "n", "t">>,
    <<" ">>,
    <<"/">>,
    <<"-">>,
    <<"2", "0", "2", "4">>,
    <<"2", "4">>,
    <<"'">>,
    <<"1", "0">>,
    <<"1", "3">>}

DateTexts == {Join(ts, <<>>) : ts \in ListsUpTo(DateTokens, MaxTokens)}

DatesInit ==
    /\ CanonIdle
    /\ UsageIdle
    /\ ScoresIdle
    /\ TwiceIdle
    /\ LazyIdle
    /\ HygieneIdle
    /\ RecencyIdle
    /\ RolesIdle
    /\ AnalyzeIdle
    /\ SectionsIdle
    /\ ParseIdle
    /\ dText \in DateTexts
    /\ dToday \in TodayVocab
    /\ dResult = NoDate
    /\ dPc = "call"

\* utils.py 664-737
ParseMonthYear ==
    /\ dPc = "call"
    /\ dResult' = parse_month_year(dText, dToday)
    /\ dPc' = "returned"
    /\ UNCHANGED <<dText, dToday>>
    /\ UNCHANGED <<canonVars, recencyVars, rolesVars, analyzeVars, sectionVars, parseVars, hygieneVars, lazyVars, twiceVars, scoreVars, usageVars>>

DatesNext == ParseMonthYear

SpecDates == DatesInit /\ [][DatesNext]_vars

\* The formats by their shape: a year is four digits that start with 19 or
\* 20, or two digits; a bare year may be two digits between apostrophes.
YearText(y) ==
    \/ Len(y) = 4 /\ AllIn(y, DigitCh) /\ SubSeq(y, 1, 2) \in {<<"1", "9">>, <<"2", "0">>}
    \/ Len(y) = 2 /\ AllIn(y, DigitCh)
YearOf(y) == IF Len(y) = 4 THEN IntOf(y) ELSE ExpandShortYear(IntOf(y))
Unquoted(t) ==
    SubSeq(t, IF t # <<>> /\ t[1] = "'" THEN 2 ELSE 1,
              IF Len(t) > 1 /\ t[Len(t)] = "'" THEN Len(t) - 1 ELSE Len(t))
BareYear(t) == (Len(t) = 4 /\ YearText(t)) \/ (Len(Unquoted(t)) = 2 /\ YearText(Unquoted(t)))
BareYearOf(t) == IF Len(t) = 4 /\ YearText(t) THEN YearOf(t) ELSE YearOf(Unquoted(t))
\* a month name, blanks, a year: the places where the name and the blanks end
NamedMonth(t) ==
    {ij \in (1..Len(t)) \X (1..Len(t)) :
        /\ ij[1] < ij[2]
        /\ AllIn(SubSeq(t, 1, ij[1]), LetterCh)
        /\ AllIn(SubSeq(t, ij[1] + 1, ij[2]), SpaceCh)
        /\ YearText(SubSeq(t, ij[2] + 1, Len(t)))
        /\ Lower(SubSeq(t, 1, ij[1])) \in DOMAIN MONTH_MAP}
NamedDate(t, ij) == Date(YearOf(SubSeq(t, ij[2] + 1, Len(t))), MONTH_MAP[Lower(SubSeq(t, 1, ij[1]))], 1)
\* a month number, a slash or hyphen, a year: the place where the number ends
NumberedMonth(t) ==
    {i \in 1..2 :
        /\ i < Len(t)
        /\ AllIn(SubSeq(t, 1, i), DigitCh)
        /\ t[i + 1] \in {"/", "-"}
        /\ YearText(SubSeq(t, i + 2, Len(t)))
        /\ IntOf(SubSeq(t, 1, i)) \in 1..12}
NumberedDate(t, i) == Date(YearOf(SubSeq(t, i + 2, Len(t))), IntOf(SubSeq(t, 1, i)), 1)

\* the first day of the month for a month and year, June 1 for a bare year,
\* None for every other string
FormatDate(t) ==
    IF BareYear(t) THEN Date(BareYearOf(t), 6, 1)
    ELSE IF NamedMonth(t) # {} THEN NamedDate(t, CHOOSE ij \in NamedMonth(t) : TRUE)
    ELSE IF NumberedMonth(t) # {} THEN NumberedDate(t, CHOOSE i \in NumberedMonth(t) : TRUE)
    ELSE NoDate

IsPresentText(t) == Lower(t) = <<"p", "r", "e", "s", "e", "n", "t">>

\* the rows of the date parsing table
DateTable ==
    /\ dText = <<"O", "c", "t", " ", "2", "0", "2", "4">> => dResult = Date(2024, 10, 1)
    /\ dText = <<"O", "c", "t", "o", "b", "e", "r", " ", "2", "0", "2", "4">> => dResult = Date(2024, 10, 1)
    /\ dText = <<"2", "0", "2", "4">> => dResult = Date(2024, 6, 1)
    /\ dText = <<>> => dResult = NoDate
    /\ dText = <<"I", "n", "v", "a", "l", "i", "d", " ", "t", "e", "x", "t">> => dResult = NoDate

\* C15 as stated: _parse_month_year returns the first day of the month for
\* a string in a supported format, June 1 for a bare year, and None for
\* every other string.
C15_DateOrNone == dPc = "returned" => (DateTable /\ dResult = FormatDate(Strip(dText)))

\* C15: _parse_month_year returns on every string: the first day of the
\* month for a month and year ("Oct 2024" and "October 2024" give
\* 2024-10-01), June 1 for a bare year ("2024" gives 2024-06-01), today for
\* "present" in any case, and None for every other string, "" and
\* "Invalid text" among them.
C15_DateParsing ==
    dPc = "returned" =>
        /\ DateTable
        /\ dResult = (IF IsPresentText(Strip(dText)) THEN dToday ELSE FormatDate(Strip(dText)))

\* a month name in full with a two-digit year
C15_Witness ==
    /\ dPc = "returned"
    /\ dText = <<"O", "c", "t", "o", "b", "e", "r", " ", "2", "4">>
    /\ dResult = Date(2024, 10, 1)

-----------------------------------------------------------------------------
(* Specification SpecHygiene: one call of hygiene_flags on a resume        *)

MaxBullets == 3

\* a short bullet, a short bullet with a number, and a bullet of ten words
BulletVocab == {
    <<"B", "u", "i", "l", "t", " ", "A", "P", "I", "s">>,
    <<"L", "e", "d", " ", "5", " ", "e", "n", "g", "i", "n", "e", "e", "r", "s">>,
    <<"D", "e", "s", "i", "g", "n", "e", "d", " ", "a", "n", "d", " ", "s", "h", "i", "p", "p", "e", "d", " ", "t", "h", "e", " ", "b", "i", "l", "l", "i", "n", "g", " ", "s", "e", "r", "v", "i", "c", "e", " ", "f", "o", "r", " ", "e", "n", "t", "e", "r", "p", "r", "i", "s", "e", " ", "c", "u", "s", "t", "o", "m", "e", "r", "s", " ", "w", "o", "r", "l", "d", "w", "i", "d", "e">>}

RoleWith(bullets) ==
    [company |-> <<"A", "c", "m", "e">>, role |-> <<"E", "n", "g", "i", "n", "e", "e", "r">>, location |-> None,
     start |-> <<"2", "0", "2", "0">>, end |-> PresentWord, bullets |-> bullets]
\* the bullets in one role, and in two roles
RolesOf(bs) ==
    {<<RoleWith(bs)>>} \cup {<<RoleWith(SubSeq(bs, 1, k)), RoleWith(SubSeq(bs, k + 1, Len(bs)))>> : k \in 1..Len(bs)}
HygieneResumes ==
    {[contact |-> NoContact, skills |-> <<>>, experience |-> e, projects |-> <<>>] :
        e \in {<<>>} \cup UNION {RolesOf(bs) : bs \in ListsUpTo(BulletVocab, MaxBullets)}}

HygieneInit ==
    /\ CanonIdle
    /\ UsageIdle
    /\ ScoresIdle
    /\ TwiceIdle
    /\ LazyIdle
    /\ RecencyIdle
    /\ RolesIdle
    /\ AnalyzeIdle
    /\ SectionsIdle
    /\ ParseIdle
    /\ DatesIdle
    /\ hResume \in HygieneResumes
    /\ hFlags = <<>>
    /\ hPc = "call"

\* utils.py 357-421
HygieneFlags ==
    /\ hPc = "call"
    /\ hFlags' = hygiene_flags(hResume)
    /\ hPc' = "returned"
    /\ UNCHANGED hResume
    /\ UNCHANGED <<canonVars, recencyVars, rolesVars, analyzeVars, sectionVars, parseVars, dateVars, lazyVars, twiceVars, scoreVars, usageVars>>

HygieneNext == HygieneFlags

SpecHygiene == HygieneInit /\ [][HygieneNext]_vars

\* the bullets of the resume's roles, their number of words, and whether
\* the average number of words is below n (the average of no bullets is 0)
BulletsOf(resume) == AllBullets(resume.experience)
WordsOf(bullets) == Len(SplitWs(Join(bullets, <<" ">>)))
AverageBelow(bullets, n) == bullets = <<>> \/ WordsOf(bullets) < n * Len(bullets)
NoNumber(bullets) == \A k \in 1..Len(bullets) : \A i \in 1..Len(bullets[k]) : bullets[k][i] \notin DigitCh

MissingQuantifiedImpact == <<"m", "i", "s", "s", "i", "n", "g", "_", "q", "u", "a", "n", "t", "i", "f", "i", "e", "d", "_", "i", "m", "p", "a", "c", "t">>
BulletsTooShort == <<"b", "u", "l", "l", "e", "t", "s", "_", "t", "o", "o", "_", "s", "h", "o", "r", "t">>

\* C16: for every resume of which no bullet holds a digit and whose bullets
\* average fewer than 8 words, the flags that hygiene_flags returns hold
\* both missing_quantified_impact and bullets_too_short.
C16_ShortUnquantified ==
    (hPc = "returned" /\ NoNumber(BulletsOf(hResume)) /\ AverageBelow(BulletsOf(hResume), 8)) =>
        (InList(MissingQuantifiedImpact, hFlags) /\ InList(BulletsTooShort, hFlags))

\* two roles whose three bullets average 22/3 words, none with a digit
C16_Witness ==
    /\ hPc = "returned"
    /\ Len(hResume.experience) = 2
    /\ Len(BulletsOf(hResume)) = 3
    /\ WordsOf(BulletsOf(hResume)) = 22
    /\ NoNumber(BulletsOf(hResume))
    /\ InList(MissingQuantifiedImpact, hFlags) /\ InList(BulletsTooShort, hFlags)

-----------------------------------------------------------------------------
(* Specification SpecLazy: threads that call canonicalize_terms while the  *)
(* table _CANON_FOR is not built yet.  The interpreter may switch threads  *)
(* between any two steps.  A dict is an object of the heap: gHeap[t] is    *)
(* the dict that thread t allocates, and a reference is the number of the  *)
(* thread that allocated the object, 0 for None.                           *)

MaxThreads == 2

Threads == 1..MaxThreads

LazyTerms == {<<<<"j", "s">>>>, <<<<"k", "8", "s">>, <<"R", "e", "a", "c", "t">>>>}

LazyInit ==
    /\ CanonIdle
    /\ UsageIdle
    /\ ScoresIdle
    /\ TwiceIdle
    /\ RecencyIdle
    /\ RolesIdle
    /\ AnalyzeIdle
    /\ SectionsIdle
    /\ ParseIdle
    /\ DatesIdle
    /\ HygieneIdle
    /\ gCanonFor = 0
    /\ gVariants = 0
    /\ gHeap = [t \in Threads |-> EmptyDict]
    /\ gBuilds = 0
    /\ tPc = [t \in Threads |-> "call"]
    /\ tK = [t \in Threads |-> 0]
    /\ tTable = [t \in Threads |-> 0]
    /\ tTerms \in [Threads -> LazyTerms]
    /\ tOut = [t \in Threads |-> <<>>]

LazyFrame == UNCHANGED <<canonVars, recencyVars, rolesVars, analyzeVars, sectionVars, parseVars, dateVars, hygieneVars, twiceVars, scoreVars, usageVars>>

\* utils.py 787-788: the table is there and is returned
ReturnBuilt(t) ==
    /\ tPc[t] = "call"
    /\ gCanonFor # 0
    /\ tTable' = [tTable EXCEPT ![t] = gCanonFor]
    /\ tPc' = [tPc EXCEPT ![t] = "lookup"]
    /\ UNCHANGED <<gCanonFor, gVariants, gHeap, gBuilds, tK, tTerms, tOut>>
    /\ LazyFrame

\* utils.py 787-790: the table is None, the construction starts
StartBuild(t) ==
    /\ tPc[t] = "call"
    /\ gCanonFor = 0
    /\ gBuilds' = gBuilds + 1
    /\ tPc' = [tPc EXCEPT ![t] = "build"]
    /\ UNCHANGED <<gCanonFor, gVariants, gHeap, tK, tTable, tTerms, tOut>>
    /\ LazyFrame

\* utils.py 791-797: one round of the loop over ALIASES.items()
AddEntry(d, e) == AddAliases(DictSet(d, clean_token_for_skill(e.canon), e.canon), e.canon, e.aliases)
BuildStep(t) ==
    /\ tPc[t] = "build"
    /\ tK[t] < Len(ALIASES)
    /\ gHeap' = [gHeap EXCEPT ![t] = AddEntry(@, ALIASES[tK[t] + 1])]
    /\ tK' = [tK EXCEPT ![t] = @ + 1]
    /\ UNCHANGED <<gCanonFor, gVariants, gBuilds, tPc, tTable, tTerms, tOut>>
    /\ LazyFrame

\* utils.py 798: _CANON_FOR = canon_for
PublishTable(t) ==
    /\ tPc[t] = "build"
    /\ tK[t] = Len(ALIASES)
    /\ gCanonFor' = t
    /\ tPc' = [tPc EXCEPT ![t] = "variants"]
    /\ UNCHANGED <<gVariants, gHeap, gBuilds, tK, tTable, tTerms, tOut>>
    /\ LazyFrame

\* utils.py 799-800: _ALL_KNOWN_VARIANTS = variants; return canon_for
PublishVariants(t) ==
    /\ tPc[t] = "variants"
    /\ gVariants' = t
    /\ tTable' = [tTable EXCEPT ![t] = t]
    /\ tPc' = [tPc EXCEPT ![t] = "lookup"]
    /\ UNCHANGED <<gCanonFor, gHeap, gBuilds, tK, tTerms, tOut>>
    /\ LazyFrame

\* utils.py 807-815: the loop of canonicalize_terms over the terms
Lookup(t) ==
    /\ tPc[t] = "lookup"
    /\ tOut' = [tOut EXCEPT ![t] = CanonLoop(gHeap[tTable[t]], tTerms[t], <<>>)]
    /\ tPc' = [tPc EXCEPT ![t] = "done"]
    /\ UNCHANGED <<gCanonFor, gVariants, gHeap, gBuilds, tK, tTable, tTerms>>
    /\ LazyFrame

LazyNext ==
    \E t \in Threads :
        \/ ReturnBuilt(t)
        \/ StartBuild(t)
        \/ BuildStep(t)
        \/ PublishTable(t)
        \/ PublishVariants(t)
        \/ Lookup(t)

SpecLazy == LazyInit /\ [][LazyNext]_vars

\* C17: the table is built exactly once: no two callers both run the
\* construction, whatever the interleaving of the threads.
C17_BuiltOnce == gBuilds <= 1

-----------------------------------------------------------------------------
(* Specification SpecTwice: analyze() is called twice with the same resume *)
(* and the same JD.  Each call draws the order of list(extracted) anew;    *)
(* between the calls other analyses may run and the date may change.  The  *)
(* state that the calls share is the alias table of build_canonical_maps   *)
(* (wTable: it is built) and the configuration.                            *)

DockerRole ==
    [company |-> <<"A", "c", "m", "e">>, role |-> <<"E", "n", "g", "i", "n", "e", "e", "r">>, location |-> None, start |-> <<"J", "a", "n", " ", "2", "0", "2", "0">>, end |-> <<"J", "a", "n", " ", "2", "0", "2", "4">>, bullets |-> <<<<"B", "u", "i", "l", "t", " ", "D", "o", "c", "k", "e", "r", " ", "i", "m", "a", "g", "e", "s">>>>]
DockerResume ==
    [contact |-> PhoneContact, skills |-> <<<<"D", "o", "c", "k", "e", "r">>>>, experience |-> <<DockerRole>>, projects |-> <<>>]
StackJD ==
    [title |-> None, company |-> None, skills |-> <<>>, required |-> <<>>,
     responsibilities |-> <<<<"U", "s", "e", " ", "D", "o", "c", "k", "e", "r", " ", "a", "n", "d", " ", "R", "e", "a", "c", "t">>>>, preferred |-> NoList]

TwiceResumes == {DockerResume, CoreResume}
TwiceJDs == {StackJD, FullJD, CoreJD}
TwiceCfgs == {[weights |-> DefaultWeights, enhanced |-> e] : e \in BOOLEAN}

TwiceInit ==
    /\ CanonIdle
    /\ UsageIdle
    /\ ScoresIdle
    /\ RecencyIdle
    /\ RolesIdle
    /\ AnalyzeIdle
    /\ SectionsIdle
    /\ ParseIdle
    /\ DatesIdle
    /\ HygieneIdle
    /\ LazyIdle
    /\ wResume \in TwiceResumes
    /\ wJd \in TwiceJDs
    /\ wCfg \in TwiceCfgs
    /\ wToday \in TodayVocab
    /\ wDay1 = NoDate
    /\ wFirst = <<>>
    /\ wSecond = <<>>
    /\ wTable = FALSE
    /\ wPc = "start"

TwiceFrame == UNCHANGED <<canonVars, recencyVars, rolesVars, analyzeVars, sectionVars, parseVars, dateVars, hygieneVars, lazyVars, scoreVars, usageVars>>

\* the first call of analyze(resume, jd)
FirstRun ==
    /\ wPc = "start"
    /\ \E order \in Orders(ExtractedFor(wJd, wCfg)) :
        wFirst' = analyze(wResume, wJd, order, wCfg, wToday)
    /\ wDay1' = wToday
    /\ wTable' = TRUE
    /\ wPc' = "between"
    /\ UNCHANGED <<wResume, wJd, wCfg, wToday, wSecond>>
    /\ TwiceFrame

\* an analysis of another request: what it leaves behind is the alias table
OtherAnalysis ==
    /\ wPc \in {"start", "between"}
    /\ wTable' = TRUE
    /\ UNCHANGED <<wResume, wJd, wCfg, wToday, wDay1, wFirst, wSecond, wPc>>
    /\ TwiceFrame

\* date.today() gives a later day
DayPasses ==
    /\ wPc = "between"
    /\ \E d \in TodayVocab :
        /\ months_ago(wToday, d) > 0
        /\ wToday' = d
    /\ UNCHANGED <<wResume, wJd, wCfg, wDay1, wFirst, wSecond, wTable, wPc>>
    /\ TwiceFrame

\* the second call of analyze(resume, jd), with the same arguments
SecondRun ==
    /\ wPc = "between"
    /\ \E order \in Orders(ExtractedFor(wJd, wCfg)) :
        wSecond' = analyze(wResume, wJd, order, wCfg, wToday)
    /\ wPc' = "done"
    /\ UNCHANGED <<wResume, wJd, wCfg, wToday, wDay1, wFirst, wTable>>
    /\ TwiceFrame

TwiceNext == FirstRun \/ OtherAnalysis \/ DayPasses \/ SecondRun

SpecTwice == TwiceInit /\ [][TwiceNext]_vars

\* what the two responses are compared on: the score, the set of the matched
\* terms, the set of the missing terms and the sections
SameOutcome(a, b) ==
    /\ a.score = b.score
    /\ Range(a.matched) = Range(b.matched)
    /\ Range(a.missing) = Range(b.missing)
    /\ a.sections = b.sections

\* C19: two calls of analyze with the same resume and the same JD return
\* the same score, the same matched set, the same missing set and the same
\* sections, whatever runs between them.
C19_Deterministic == wPc = "done" => SameOutcome(wFirst, wSecond)

\* C19, amended: two calls of analyze with the same resume and the same JD
\* that run on the same day return the same score, the same matched set,
\* the same missing set and the same sections, whatever the order in which
\* list(extracted) comes out in each call and whatever other analyses run
\* between them.
C19_SameDayDeterministic == (wPc = "done" /\ wDay1 = wToday) => SameOutcome(wFirst, wSecond)

\* the two calls ran on the same day, saw the extracted skills in different
\* orders, and one term is matched and one is missing
C19_Witness ==
    /\ wPc = "done"
    /\ wDay1 = wToday
    /\ wFirst.normalizedJD.skills # wSecond.normalizedJD.skills
    /\ wFirst.matched # <<>>
    /\ wFirst.missing # <<>>
    /\ wFirst.sections.recencyScorePct > 0

-----------------------------------------------------------------------------
(* Specification SpecScores: verb_alignment, _compute_domain_bonus and the *)
(* buckets of a JD (extract_jd_buckets, and the buckets that analyze()     *)
(* builds), each called on a JD and a resume.                              *)

ScoreTitles == {None, <<"j", "s">>, <<"S", "e", "n", "i", "o", "r", " ", "D", "a", "t", "a", " ", "E", "n", "g", "i", "n", "e", "e", "r">>, <<"T", "h", "e", " ", "L", "e", "a", "d">>}
ScoreResponsibilities == {<<>>, <<<<"b", "u", "i", "l", "d", ",", " ", "d", "e", "p", "l", "o", "y">>>>, <<<<"B", "u", "i", "l", "d", " ", "a", "p", "p", "s">>>>}
ScoreRequired == {<<>>, <<<<"j", "a", "v", "a", "s", "c", "r", "i", "p", "t">>>>}
ScoreJDs ==
    {[title |-> t, company |-> None, skills |-> <<>>, required |-> q, responsibilities |-> r, preferred |-> NoList] :
        t \in ScoreTitles, q \in ScoreRequired, r \in ScoreResponsibilities}

ScoreRoles ==
    {<<>>,
     <<[company |-> <<"A", "c", "m", "e">>, role |-> <<"D", "a", "t", "a", " ", "E", "n", "g", "i", "n", "e", "e", "r">>, location |-> None, start |-> <<"J", "a", "n", " ", "2", "0", "2", "0">>, end |-> <<"P", "r", "e", "s", "e", "n", "t">>, bullets |-> <<<<"b", "u", "i", "l", "d", " ", "a", "n", "d", " ", "d", "e", "p", "l", "o", "y", " ", "p", "i", "p", "e", "l", "i", "n", "e", "s">>>>]>>,
     <<[company |-> <<"A", "c", "m", "e">>, role |-> <<"P", "y", "t", "h", "o", "n", " ", "E", "n", "g", "i", "n", "e", "e", "r">>, location |-> None, start |-> <<"J", "a", "n", " ", "2", "0", "2", "0">>, end |-> <<"P", "r", "e", "s", "e", "n", "t">>, bullets |-> <<<<"b", "u", "i", "l", "d", " ", "a", "p", "p", "s">>>>]>>,
     <<[company |-> <<"A", "c", "m", "e">>, role |-> <<>>, location |-> None, start |-> <<"J", "a", "n", " ", "2", "0", "2", "0">>, end |-> <<"P", "r", "e", "s", "e", "n", "t">>, bullets |-> <<<<"L", "e", "d", " ", "5", " ", "e", "n", "g", "i", "n", "e", "e", "r", "s">>>>]>>}
ScoreResumes ==
    {[contact |-> PhoneContact, skills |-> <<>>, experience |-> e, projects |-> <<>>] : e \in ScoreRoles}

ScoresInit ==
    /\ CanonIdle
    /\ UsageIdle
    /\ RecencyIdle
    /\ RolesIdle
    /\ AnalyzeIdle
    /\ SectionsIdle
    /\ ParseIdle
    /\ DatesIdle
    /\ HygieneIdle
    /\ LazyIdle
    /\ TwiceIdle
    /\ fJd \in ScoreJDs
    /\ fResume \in ScoreResumes
    /\ fOut = <<>>
    /\ fPc = "input"

ScoresFrame == UNCHANGED <<canonVars, recencyVars, rolesVars, analyzeVars, sectionVars, parseVars, dateVars, hygieneVars, lazyVars, twiceVars, usageVars>>

Scored(path, out) ==
    /\ fPc = "input"
    /\ fOut' = out
    /\ fPc' = path
    /\ UNCHANGED <<fJd, fResume>>
    /\ ScoresFrame

\* verb_alignment(jd_resp, bullets_norm), as analyze() calls it
VerbAlignment ==
    Scored("verbs", verb_alignment(NormalizeAll(fJd.responsibilities), NormalizeAll(AllBullets(fResume.experience))))

\* _compute_domain_bonus(resume, jd)
DomainBonus == Scored("bonus", compute_domain_bonus(fResume, fJd))

\* extract_jd_buckets(jd)
DomainRaw(jd, req, pref, skills) ==
    dedupe_keep_order(SelectSeq(explode_terms(<<OrEmptyStr(jd.title)>>) \o explode_terms(jd.responsibilities),
                                LAMBDA t : ~InList(t, req) /\ ~InList(t, pref) /\ ~InList(t, skills)))
BucketsOf(jd, req, pref, skills) ==
    [core |-> dedupe_keep_order(canonicalize_terms(req)
                  \o SelectSeq(canonicalize_terms(skills), LAMBDA x : ~InList(x, canonicalize_terms(req)))),
     preferred |-> canonicalize_terms(pref),
     domain |-> canonicalize_terms(DomainRaw(jd, req, pref, skills)),
     verbs_src |-> explode_terms(jd.responsibilities)]
extract_jd_buckets(jd) ==
    BucketsOf(jd, explode_terms(strip_list_artifacts(jd.required)),
              explode_terms(strip_list_artifacts(OrEmptyList(jd.preferred))),
              explode_terms(strip_list_artifacts(jd.skills)))

\* the buckets that analyze() scores: analyze.py 599-612
ScoredBuckets(jd, normalizedJD, jd_pref) ==
    [core |-> normalizedJD.skills,
     preferred |-> jd_pref,
     domain |-> DomainTerms(jd, normalizedJD.skills, normalizedJD.responsibilities, jd_pref)]

JdBuckets == Scored("buckets", extract_jd_buckets(fJd))

AnalyzeBuckets ==
    \E order \in Orders(ExtractedFor(fJd, DefaultCfg)) :
        Scored("scored", ScoredBuckets(fJd, enhanced_jd_normalization(fJd, order),
            canonicalize_terms(explode_terms(strip_list_artifacts(OrEmptyList(fJd.preferred))))))

ScoresNext == VerbAlignment \/ DomainBonus \/ JdBuckets \/ AnalyzeBuckets

SpecScores == ScoresInit /\ [][ScoresNext]_vars

\* the action verbs that the responsibilities of the JD name: the words of
\* the responsibilities that are in ACTION_VERBS
ImpliedVerbs(src) ==
    {w \in UNION {Range(SplitWs(normalize_term(src[k]))) : k \in 1..Len(src)} : w \in ACTION_VERBS}
VerbsFound(verbs, bullets) == {v \in verbs : fuzzy_contains(v, bullets, FUZZY_THRESHOLD)}

\* C21: verb_alignment returns hits / number of the action verbs that the
\* responsibilities of the JD name, 1.0 when each of them is found in the
\* bullets; the generic ACTION_VERBS are the denominator only when the
\* responsibilities name no action verb.
C21_VerbAlignment ==
    fPc = "verbs" =>
        LET verbs == ImpliedVerbs(fJd.responsibilities)
            bullets == NormalizeAll(AllBullets(fResume.experience))
        IN  IF verbs = {}
            THEN fOut = Ratio(Cardinality(VerbsFound(ACTION_VERBS, bullets)), Cardinality(ACTION_VERBS))
            ELSE fOut = Ratio(Cardinality(VerbsFound(verbs, bullets)), Cardinality(verbs))

\* the keywords of the JD title, the role titles of the resume and the
\* number of keywords that a role title holds
BonusKeywords == TitleKeywords(Lower(OrEmptyStr(fJd.title)))
BonusRoles == RoleTitles(fResume.experience)
BonusMatched == Cardinality({k \in 1..Len(BonusKeywords) : \E r \in 1..Len(BonusRoles) : Contains(BonusRoles[r], BonusKeywords[k])})

\* C25: _compute_domain_bonus returns an integer from 0 to 15, the whole
\* part of 15 * matched / keywords: 15 exactly when every keyword of the JD
\* title is in a role title of the resume, 0 when none is and when the
\* title, its keywords or the role titles are empty.
C25_DomainBonus ==
    fPc = "bonus" =>
        /\ fOut \in 0..MaxBonus
        /\ IF OrEmptyStr(fJd.title) = <<>> \/ BonusKeywords = <<>> \/ BonusRoles = <<>> \/ BonusMatched = 0
           THEN fOut = 0
           ELSE /\ fOut = (MaxBonus * BonusMatched) \div Len(BonusKeywords)
                /\ fOut = MaxBonus <=> BonusMatched = Len(BonusKeywords)

\* one of the two keywords of the title is in a role title: 7 of 15
C25_Witness ==
    /\ fPc = "bonus"
    /\ Len(BonusKeywords) = 2
    /\ BonusMatched = 1
    /\ fOut = 7

\* C26: in the buckets that extract_jd_buckets returns and in those that
\* analyze() scores, no domain term is a core or a preferred term, and no
\* bucket holds a term twice.
C26_DomainDisjoint ==
    fPc \in {"buckets", "scored"} =>
        /\ Range(fOut.domain) \cap (Range(fOut.core) \cup Range(fOut.preferred)) = {}
        /\ NoDuplicate(fOut.core)
        /\ NoDuplicate(fOut.preferred)
        /\ NoDuplicate(fOut.domain)

\* the same for the buckets of analyze() alone, whose domain terms are
\* not canonicalized: no domain term is, as a string, a core or preferred term
C26_ScoredDisjoint ==
    fPc = "scored" => Range(fOut.domain) \cap (Range(fOut.core) \cup Range(fOut.preferred)) = {}

\* The recency score as a mean over the core terms: the weight of a term
\* is the highest weight (that of the most recent role) among the roles
\* whose bullets, title or company hold the term, 0 when no role holds it
RolesWith(term, experience) ==
    {k \in 1..Len(experience) : fuzzy_contains_canonical(term, RolePool(experience[k]))}
BoostedWeight(role, today) == Enhanced(role_recency_weight(role, today), calculate_role_duration(role, today))
TermWeight(term, experience, today) ==
    IF RolesWith(term, experience) = {} THEN 0
    ELSE CHOOSE w \in {BoostedWeight(experience[k], today) : k \in RolesWith(term, experience)} :
            \A k \in RolesWith(term, experience) : BoostedWeight(experience[k], today) <= w
MeanOverTerms(core_terms, experience, today) ==
    IF core_terms = <<>> THEN 0
    ELSE Min(Million, RoundHalfEven(SumOf([k \in 1..Len(core_terms) |-> TermWeight(core_terms[k], experience, today)]),
                                    Len(core_terms)))

\* C22: the recency score of analyze() is the mean over the core terms of
\* the JD of the weight of the most recent role that holds the term, a
\* term that no role holds counting 0.
C22_MeanOverTerms ==
    wPc \in {"between", "done"} =>
        wFirst.sections.recencyScorePct
            = RoundHalfEven(MeanOverTerms(wFirst.normalizedJD.skills, wResume.experience, wDay1), Million \div 100)

-----------------------------------------------------------------------------
(* The score of analyze() as a formula: analyze.py 653-688                 *)

\* the six ratios of a returned analysis, in millionths, computed from the
\* request and the normalized JD of the result
ScoreRatios ==
    LET core == aResult.normalizedJD.skills
        resp == aResult.normalizedJD.responsibilities
        pref == canonicalize_terms(explode_terms(strip_list_artifacts(OrEmptyList(aJd.preferred))))
        bullets == NormalizeAll(AllBullets(aResume.experience))
        hay == dedupe_keep_order(canonicalize_terms(aResume.skills) \o bullets)
        dom == DomainTerms(aJd, core, resp, pref)
    IN  [core |-> Ratio(Len(PresentIn(core, hay, FUZZY_THRESHOLD)), Len(core)),
         preferred |-> Ratio(Len(PresentIn(pref, hay, FUZZY_THRESHOLD)), Len(pref)),
         domain |-> Ratio(Len(PresentIn(dom, hay, FUZZY_THRESHOLD)), Len(dom)),
         verbs |-> verb_alignment(resp, bullets),
         recency |-> enhanced_recency_score(aResume, core, aToday),
         hygiene |-> hygiene(aResume),
         empty |-> [core |-> core = <<>>, preferred |-> pref = <<>>, domain |-> dom = <<>>]]
Buckets == {"core", "preferred", "domain", "verbs", "recency", "hygiene"}
WeightedSum(w, r) ==
    w.core * r.core + w.preferred * r.preferred + w.domain * r.domain
        + w.verbs * r.verbs + w.recency * r.recency + w.hygiene * r.hygiene

-----------------------------------------------------------------------------
(* Specification SpecBullets: _split_experience_roles on lines that are    *)
(* bullets, continuation lines, blank lines and a role header              *)

BlockVocab == {
    <<"S", "o", "f", "t", "w", "a", "r", "e", " ", "E", "n", "g", "i", "n", "e", "e", "r">>,
    <<"bullet", " ", "B", "u", "i", "l", "t", " ", "A", "P", "I", "s">>,
    <<"bullet", " ", "a">>,
    <<"w", "i", "t", "h", " ", "D", "o", "c", "k", "e", "r">>,
    <<>>}

BulletsInit ==
    /\ CanonIdle
    /\ UsageIdle
    /\ ScoresIdle
    /\ TwiceIdle
    /\ LazyIdle
    /\ HygieneIdle
    /\ DatesIdle
    /\ ParseIdle
    /\ SectionsIdle
    /\ RecencyIdle
    /\ AnalyzeIdle
    /\ lines \in ListsUpTo(BlockVocab, MaxLines)
    /\ idx = 0
    /\ current = <<>>
    /\ roles = <<>>
    /\ xPc = "start"

SpecBullets == BulletsInit /\ [][RolesNext]_vars

\* the loop is at a line that starts a block: not a header, not blank
AtBlock ==
    /\ xPc = "loop"
    /\ idx < Len(lines)
    /\ ~likely_role_header(RStrip(lines[idx + 1]))
    /\ Strip(lines[idx + 1]) # <<>>
\* the last line of the block: the line before the next blank line or role
\* header, or the last line of the input
InBlock(k) == Strip(lines[k]) # <<>> /\ ~likely_role_header(RStrip(lines[k]))
BlockLast ==
    CHOOSE k \in (idx + 1)..Len(lines) :
        /\ \A m \in (idx + 1)..k : InBlock(m)
        /\ k = Len(lines) \/ ~InBlock(k + 1)
BlockLines == [m \in 1..(BlockLast - idx) |-> RStrip(lines[idx + m])]
\* a bullet starts at each line with a glyph and at the first line
StartsIn(block) == SelectSeq([p \in 1..Len(block) |-> p], LAMBDA p : p = 1 \/ is_bullet(block[p]))
LastOf(block, p) ==
    IF \E q \in (p + 1)..Len(block) : is_bullet(block[q])
    THEN (CHOOSE q \in (p + 1)..Len(block) : is_bullet(block[q]) /\ \A m \in (p + 1)..(q - 1) : ~is_bullet(block[m])) - 1
    ELSE Len(block)
BulletFrom(block, p) ==
    Strip(Join(<<IF is_bullet(block[p]) THEN strip_bullet(block[p]) ELSE Strip(block[p])>>
               \o [m \in 1..(LastOf(block, p) - p) |-> Strip(block[p + m])], <<" ">>))
OnePerGlyph(block) == [n \in 1..Len(StartsIn(block)) |-> BulletFrom(block, StartsIn(block)[n])]
OpenBullets == IF current = <<>> THEN <<>> ELSE current[1].bullets

\* C27: a block of contiguous lines within a role gives one bullet for each
\* line with a glyph, and one for the first line when it has no glyph; the
\* lines without a glyph are appended to the bullet before them; the block
\* ends before the next blank line or role header.
C27_OneBulletPerGlyph ==
    [][AtBlock => (current'[1].bullets = OpenBullets \o OnePerGlyph(BlockLines) /\ idx' = BlockLast)]_vars

\* C27, amended: as above, for the bullets whose text is longer than one
\* character; a bullet of at most one character is dropped.
C27_BulletsOfBlock ==
    [][AtBlock => (current'[1].bullets = OpenBullets \o SelectSeq(OnePerGlyph(BlockLines), LongerThanOne)
                   /\ idx' = BlockLast)]_vars

\* a role with two bullets from three lines: the second line continues the
\* first bullet
C27_Witness ==
    /\ xPc = "done"
    /\ current # <<>>
    /\ current[1].role = <<"S", "o", "f", "t", "w", "a", "r", "e", " ", "E", "n", "g", "i", "n", "e", "e", "r">>
    /\ current[1].bullets = <<<<"B", "u", "i", "l", "t", " ", "A", "P", "I", "s", " ", "w", "i", "t", "h", " ", "D", "o", "c", "k", "e", "r">>, <<"B", "u", "i", "l", "t", " ", "A", "P", "I", "s">>>>

-----------------------------------------------------------------------------
(* matched and missing in the result of analyze(): analyze.py 628-641,     *)
(* 682-699                                                                 *)

\* C28: in every result of analyze(), matched and missing have no term in
\* common, neither holds a term twice, and together they hold exactly the
\* terms of normalizedJD.skills.
C28_MatchedMissingPartition ==
    aPc \in AnalyzeReturns =>
        /\ Range(aResult.matched) \cap Range(aResult.missing) = {}
        /\ NoDuplicate(aResult.matched)
        /\ NoDuplicate(aResult.missing)
        /\ Range(aResult.matched) \cup Range(aResult.missing) = Range(aResult.normalizedJD.skills)

\* analyze() has returned some skills of the JD as matched and others as missing
C28_Witness ==
    /\ aPc \in AnalyzeReturns
    /\ aResult.matched # <<>>
    /\ aResult.missing # <<>>
    /\ Len(aResult.matched) + Len(aResult.missing) = Len(aResult.normalizedJD.skills)

-----------------------------------------------------------------------------
(* Specification SpecUsage: concurrent calls of                            *)
(* UsageLimiter.check_api_limit(user_id, increment=True) for one user,     *)
(* middleware/usage_limiter.py 21-111. The row of the user is in the       *)
(* Supabase table user_profiles, which every worker process of the server  *)
(* reads and writes through its own client; a read and a write are two     *)
(* requests to the database. The reset date of the row is in the future.   *)

MaxCallers == 3
MaxLimit == 2
Callers == 1..MaxCallers

UsageFrame == UNCHANGED <<canonVars, recencyVars, rolesVars, analyzeVars, sectionVars, parseVars, dateVars, hygieneVars, lazyVars, twiceVars, scoreVars>>

UsageInit ==
    /\ CanonIdle
    /\ ScoresIdle
    /\ TwiceIdle
    /\ LazyIdle
    /\ HygieneIdle
    /\ DatesIdle
    /\ ParseIdle
    /\ SectionsIdle
    /\ RecencyIdle
    /\ RolesIdle
    /\ AnalyzeIdle
    /\ uLimit \in 1..MaxLimit
    /\ uDbUsed \in 0..uLimit
    /\ uPc = [c \in Callers |-> "call"]
    /\ uLocal = [c \in Callers |-> 0]

\* lines 28-43: limit and used are read from the row
ReadProfile(c) ==
    /\ uPc[c] = "call"
    /\ uLocal' = [uLocal EXCEPT ![c] = uDbUsed]
    /\ uPc' = [uPc EXCEPT ![c] = "read"]
    /\ UNCHANGED <<uLimit, uDbUsed>>
    /\ UsageFrame

\* lines 53-64: HTTP 429
LimitExceeded(c) ==
    /\ uPc[c] = "read"
    /\ uLocal[c] >= uLimit
    /\ uPc' = [uPc EXCEPT ![c] = "rejected"]
    /\ UNCHANGED <<uLimit, uDbUsed, uLocal>>
    /\ UsageFrame

\* lines 67-77 and 106-111: api_calls_used is set to used + 1 and the usage
\* is returned
IncrementUsage(c) ==
    /\ uPc[c] = "read"
    /\ ~(uLocal[c] >= uLimit)
    /\ uDbUsed' = uLocal[c] + 1
    /\ uLocal' = [uLocal EXCEPT ![c] = @ + 1]
    /\ uPc' = [uPc EXCEPT ![c] = "admitted"]
    /\ UNCHANGED uLimit
    /\ UsageFrame

\* lines 81-90: a request to the database raises, and the call returns the
\* usage of an unused free plan
QueryFails(c) ==
    /\ uPc[c] = "call" \/ (uPc[c] = "read" /\ ~(uLocal[c] >= uLimit))
    /\ uPc' = [uPc EXCEPT ![c] = "allowed"]
    /\ UNCHANGED <<uLimit, uDbUsed, uLocal>>
    /\ UsageFrame

UsageNext ==
    \E c \in Callers : ReadProfile(c) \/ LimitExceeded(c) \/ IncrementUsage(c) \/ QueryFails(c)

SpecUsage == UsageInit /\ [][UsageNext]_vars

\* the calls that have returned usage info
Admitted == {c \in Callers : uPc[c] \in {"admitted", "allowed"}}
Counted == {c \in Callers : uPc[c] = "admitted"}

\* C30: however the concurrent calls of check_api_limit(user_id,
\* increment=True) for one user interleave within a billing period, the
\* number of calls that return usage info is at most api_calls_limit.
C30_AdmittedWithinLimit == Cardinality(Admitted) <= uLimit

\* the same for the calls in which no request to the database has failed
C30_CountedWithinLimit == Cardinality(Counted) <= uLimit

=============================================================================
